---------------------------- MODULE Spec2Model ----------------------------
(*
  Emergency response in a road network: the Review-2 simulation loop with its
  ERV lifecycle (src/Review-2/run_simulation.py), the incident registry
  (src/Review-2/cen_broadcast.py) and the multi-hop V2V alert relay
  (src/run_simulation.py and src/Review-2/run_simulation.py).

  Three specifications share this module:
    Spec     the Review-2 simulation loop, tick by tick;
    SpecCEN  arbitrary call sequences on a CENBroadcast object;
    SpecV2V  emergency alerts relayed by propagate_v2v_message.
  Each one leaves the variables of the others at their initial values.

  Spec does not count the ticks: runs of any length are covered, and the
  simulated time the loop reads stays at its initial value.  With the time
  standing still cen.broadcast finds no interval elapsed and does nothing, and
  listen_and_reroute changes none of the tables below, so a tick of Spec ends
  with manage_erv_operations; the broadcast cadence is the subject of SpecCEN.

  Conventions: Python's None is 0 for an incident id or a location, -1 for a
  time and "None" for a string; the incident id f"ACC_{n:03d}" is written n (the
  formatting is injective on the naturals, so two ids are equal exactly when
  the numbers are).
*)
EXTENDS Integers, Sequences, FiniteSets, TLC

\* ------------------------------------------------------------------ bounds
\* Places where vehicles meet: two vehicles at the same place are closer than
\* COLLISION_DISTANCE, a vehicle that is Free is close to no other vehicle.
NumSpots == 1
\* SpecCEN: incident ids passed to the registry, and the latest time of a call.
MaxIds == 2
MaxTime == 20
\* SpecV2V: points of the road the vehicles stand on, and alerts per run.
NumPoints == 4
MaxAlerts == 2
\* Route finding: get_fuzzy_congestion is one of 0, 5, .., 5 * MaxLevel.
MaxLevel == 1
\* get_edge_weight: the segments are up to 10 * MaxLengthTens m long.
MaxLengthTens == 10
\* Ant search: the calls of get_path_from_ants in a run.
MaxSearches == 3
\* Relay depth: the vehicles spawn_vehicle has added to the four of the start
\* and the ambulance.
MaxSpawned == 3

\* ------------------------------------------------------- program constants
\* The vehicles of the run (spawn_vehicle adds others every SPAWN_INTERVAL
\* ticks, which the model leaves out).
NUM_INITIAL_VEHICLES == 4
MAX_HOP_COUNT == 5
V2V_COMMUNICATION_RANGE == 200
\* cen = CENBroadcast(interval=10, ...)
CEN_INTERVAL == 10
\* graph = {"A": [("B", 100), ...]}: the length of every segment of the grid.
EDGE_LENGTH == 100
\* dijkstra_shortest_path: max_iterations = 300
max_iterations == 300
\* find_path_bfs_manual: max_iterations = 200
bfs_max_iterations == 200
\* The GA of best_erv.py.
POP_SIZE == 20
GENERATIONS == 30
TOURNAMENT_K == 3

NoId == 0
NoLoc == 0
NoTime == -1
Gone == 0
NoEdge == "None"
NoErv == "None"
NoRoute == [to |-> "None"]

\* EDGE_NODE_POSITIONS of either script, in the order of the dict.
EDGE_NODE_POSITIONS(v) ==
  IF v = "root"
  THEN <<[id |-> "EdgeNode_D", position |-> <<0, 100>>],
         [id |-> "EdgeNode_C", position |-> <<200, 0>>],
         [id |-> "EdgeNode_I", position |-> <<200, 200>>]>>
  ELSE <<[id |-> "EdgeNode_A", position |-> <<30, 20>>],
         [id |-> "EdgeNode_D", position |-> <<30, 120>>],
         [id |-> "EdgeNode_C", position |-> <<200, 180>>],
         [id |-> "EdgeNode_I", position |-> <<200, 20>>]>>
EdgeNodeIds(v) == {EDGE_NODE_POSITIONS(v)[i].id : i \in 1 .. Len(EDGE_NODE_POSITIONS(v))}

\* ambulance_readiness.keys(): the fixed enumeration order of the ERVs.
ambulance_keys == <<"ambulance0", "ambulance1", "ambulance2">>
ERVs == {ambulance_keys[i] : i \in 1 .. Len(ambulance_keys)}

\* veh0 .. veh3, written 0 .. 3 (spawn_vehicle names them in this order).
Vehicles == 0 .. (NUM_INITIAL_VEHICLES - 1)
Spots == 1 .. NumSpots
Free == NumSpots + 1
Pairs == {p \in Vehicles \X Vehicles : p[1] < p[2]}

VARIABLES
  \* --- the simulation loop
  pc, new_collisions,
  veh_pos,                \* simulator: place of each vehicle, Gone once removed
  sim_time,               \* simulator: traci.simulation.getTime()
  reported_collisions, total_accidents,
  best_ambulance,         \* the GA's latest pick, "unset" before the first
  erv_assignments, erv_status, erv_destinations, erv_target_edge,
  erv_optimal_route, erv_arrival_times,
  accident_status, accident_vehicles,
  \* --- CENBroadcast
  cen_accidents, cleared_accidents,
  \* --- SpecCEN: history of the calls and the effect of the latest call
  mark_called, mark_registered, bcast_updated, bcast_notified,
  last_call,              \* the method of the registry called last
  \* --- SpecV2V
  variant, v2v_pos, stopped_vehicles, message_cache, message_history,
  hop_count_stats, accident_alerts_received, alerts_sent,
  \* --- route finding (best_erv.py, vehicle.py)
  links,                  \* simulator: the connections traci.lane.getLinks reports
  congestion,             \* simulator: get_fuzzy_congestion of each segment
  sumo_connects,          \* simulator: findRoute knows a way getLinks does not show
  route_cache,
  returned,               \* the latest call of a route function and its result
  selection,              \* the latest select_best_ambulance call and its result
  \* --- Vehicle objects (vehicle.py)
  is_in_accident, accidents_received,
  veh_route,              \* simulator: traci.vehicle.getRoute, set by setRoute
  rerouted_for,           \* per vehicle, the incidents setRoute was called for
  set_route_calls,        \* per vehicle, the setRoute calls of listen_and_reroute
  veh_speed,              \* simulator: the speed setSpeed gave a vehicle, -1 for none
  \* --- Vehicle_Rerouting.py
  pheromone, blocked_edges,
  searches                \* the calls of get_path_from_ants made so far

simVars == <<pc, new_collisions, veh_pos, sim_time, reported_collisions, total_accidents,
             best_ambulance>>
ervVars == <<erv_assignments, erv_status, erv_destinations, erv_target_edge,
             erv_optimal_route, erv_arrival_times>>
accVars == <<accident_status, accident_vehicles>>
cenVars == <<cen_accidents, cleared_accidents>>
callVars == <<mark_called, mark_registered, bcast_updated, bcast_notified, last_call>>
v2vVars == <<variant, v2v_pos, stopped_vehicles, message_cache, message_history,
             hop_count_stats, accident_alerts_received, alerts_sent>>
pathVars == <<links, congestion, sumo_connects, route_cache, returned>>
gaVars == <<selection>>
listenVars == <<is_in_accident, accidents_received, veh_route, rerouted_for, veh_speed,
                set_route_calls>>
antVars == <<pheromone, blocked_edges, searches>>
extVars == <<pathVars, gaVars, listenVars, antVars>>
vars == <<simVars, ervVars, accVars, cenVars, callVars, v2vVars, extVars>>

\* A dict with one key set (d[k] = v).
Put(d, k, v) == [x \in DOMAIN d \cup {k} |-> IF x = k THEN v ELSE d[x]]
EmptyDict == [x \in {} |-> 0]
Range(s) == {s[i] : i \in 1 .. Len(s)}

\* --------------------------------------------------------- faulty variants
\* Plausible slips of definitions below; a property that is shown to hold must
\* fail once the slip replaces the definition.
\* assign_erv_to_accident sends the ERV on its way at once.
Faulty_AssignedStatus == "en_route"
\* The loop takes the GA's pick without looking at its status.
Faulty_BestIsIdle(best) == best # NoErv
\* get_available_erv returns the last idle ERV of the enumeration.
Faulty_get_available_erv(status) ==
  LET idle == {i \in 1 .. Len(ambulance_keys) : status[ambulance_keys[i]] = "idle"}
  IN  IF idle = {} THEN NoErv
      ELSE ambulance_keys[CHOOSE i \in idle : \A j \in idle : i >= j]

\* broadcast trusts the cleared flag of the entry alone.
Faulty_IsCleared(c, accident_id) == c[1][accident_id].cleared

\* The hop limit is applied to the number of vehicles on the path.
Faulty_HopLimitReached(message) == Len(message.propagation_path) > MAX_HOP_COUNT
\* A relay only refuses to send the message back to where it came from.
\* propagate_v2v_message without its test of the hop count.
Faulty_NoHopLimit(message) == FALSE
Faulty_AlreadyReceived(vehicle_id, message) == vehicle_id = message.source_id
\* select_best_ambulance keeps the routes of the cycle before.
Faulty_ClearedCache(cache) == cache
\* mark_accident_cleared notes the id without looking it up in the registry.
Faulty_mark_accident_cleared(c, accident_id) ==
  <<IF accident_id \in DOMAIN c[1] THEN [c[1] EXCEPT ![accident_id].cleared = TRUE] ELSE c[1],
    c[2] \cup {accident_id}>>
\* The queue hands out its dearest entry.
Faulty_heappop(pq) == CHOOSE x \in pq : \A y \in pq : x.cost >= y.cost
\* dijkstra_shortest_path has no shortcut for start_edge == end_edge.
Faulty_SameEdge(start_edge, end_edge) == FALSE
\* route_cache keeps the number of segments where the cost belongs.
Faulty_CacheEntry(path, cost) == [path |-> path, cost |-> Len(path)]
Faulty_StopAfter(r) == FALSE
\* broadcast takes any later time for a due one.
Faulty_IntervalElapsed(last_time, now) == now - last_time > 0

\* ------------------------------------------------------------ CENBroadcast
\* register: the entry of accident_id is (re)written, cleared = False.
register(accidents, accident_id, location, now, vehicles_involved, accident_edge) ==
  Put(accidents, accident_id,
      [location |-> location,
       last_time |-> now,
       vehicles_involved |-> vehicles_involved,
       edge |-> accident_edge,
       cleared |-> FALSE])

\* mark_accident_cleared: nothing for an id that is not in the registry.
\* c is the pair <<accidents, cleared_accidents>>.
mark_accident_cleared(c, accident_id) ==
  IF accident_id \in DOMAIN c[1]
  THEN <<[c[1] EXCEPT ![accident_id].cleared = TRUE], c[2] \cup {accident_id}>>
  ELSE c

\* The two tests by which broadcast skips an incident.
IsCleared(c, accident_id) == c[1][accident_id].cleared \/ accident_id \in c[2]

\* "if sim_time - data["last_time"] >= self.interval"
IntervalElapsed(last_time, now) == now - last_time >= CEN_INTERVAL

\* broadcast(sim_time, vehicles_dict): the incidents that are not skipped and
\* whose interval has elapsed call listen_and_reroute on every vehicle within
\* range of the registering node that is not involved, and get last_time set.
\* The result is the registry after the call with what the call did.
broadcast(c, now, in_range) ==
  LET due == {id \in DOMAIN c[1] :
                ~IsCleared(c, id) /\ IntervalElapsed(c[1][id].last_time, now)}
  IN  [accidents |-> [id \in DOMAIN c[1] |->
                        IF id \in due THEN [c[1][id] EXCEPT !.last_time = now] ELSE c[1][id]],
       updated |-> due,
       notified |-> {n \in due \X in_range : n[2] \notin Range(c[1][n[1]].vehicles_involved)}]

\* ------------------------------------------------------------ ERV functions
\* The tables manage_erv_operations works on, as one value.
Tables ==
  [erv_assignments |-> erv_assignments, erv_status |-> erv_status,
   erv_destinations |-> erv_destinations, erv_target_edge |-> erv_target_edge,
   erv_optimal_route |-> erv_optimal_route, erv_arrival_times |-> erv_arrival_times,
   accident_status |-> accident_status, veh_pos |-> veh_pos,
   cen |-> <<cen_accidents, cleared_accidents>>]

\* get_available_erv: the first idle ERV in the order of ambulance_keys, or None.
get_available_erv(status) ==
  LET idle == {i \in 1 .. Len(ambulance_keys) : status[ambulance_keys[i]] = "idle"}
  IN  IF idle = {} THEN NoErv
      ELSE ambulance_keys[CHOOSE i \in idle : \A j \in idle : i <= j]

\* The status assign_erv_to_accident gives the ERV.
AssignedStatus == "assigned"

assign_erv_to_accident(erv_id, accident_id, location, accident_edge, collision_pair, optimal_route) ==
  /\ erv_assignments' = [erv_assignments EXCEPT ![erv_id] = accident_id]
  /\ erv_status' = [erv_status EXCEPT ![erv_id] = AssignedStatus]
  /\ erv_destinations' = [erv_destinations EXCEPT ![erv_id] = location]
  /\ erv_target_edge' = [erv_target_edge EXCEPT ![erv_id] = accident_edge]
  /\ erv_optimal_route' = [erv_optimal_route EXCEPT ![erv_id] = optimal_route]
  /\ accident_status' = Put(accident_status, accident_id,
                            [location |-> location, erv |-> erv_id, cleared |-> FALSE,
                             vehicles |-> collision_pair, detection_time |-> sim_time])
  /\ accident_vehicles' = Put(accident_vehicles, accident_id, collision_pair)
  /\ UNCHANGED erv_arrival_times

\* dispatch_erv: the stored route if there is one and the simulator takes it,
\* else a route to the incident segment; without either the ERV stays assigned.
dispatch_erv(t, erv_id, accident_edge, set_route_ok, fallback_ok) ==
  IF t.erv_optimal_route[erv_id] # NoRoute /\ set_route_ok
  THEN [t EXCEPT !.erv_status[erv_id] = "en_route"]
  ELSE IF accident_edge # NoEdge /\ fallback_ok
       THEN [t EXCEPT !.erv_status[erv_id] = "en_route"]
       ELSE t

\* check_erv_arrival: within 20 m of the incident or on the target segment.
check_erv_arrival(t, erv_id, accident_id, at_incident) ==
  IF accident_id \in DOMAIN t.accident_status /\ at_incident
  THEN [t EXCEPT !.erv_status[erv_id] = "arrived",
                 !.erv_arrival_times[erv_id] = sim_time]
  ELSE t

\* Faulty variant: the reset to idle keeps the arrival time of the ERV.
Faulty_return_ambulance_to_parking(t, erv_id, teleport_ok) ==
  IF teleport_ok
  THEN [t EXCEPT !.erv_status[erv_id] = "idle",
                 !.erv_target_edge[erv_id] = NoEdge,
                 !.erv_assignments[erv_id] = NoId,
                 !.erv_destinations[erv_id] = NoLoc,
                 !.erv_optimal_route[erv_id] = NoRoute]
  ELSE t

\* return_ambulance_to_parking: teleport, stop, and reset to idle; an exception
\* of the simulator (teleport_ok false) leaves the ERV as it is.
return_ambulance_to_parking(t, erv_id, teleport_ok) ==
  IF teleport_ok
  THEN [t EXCEPT !.erv_status[erv_id] = "idle",
                 !.erv_target_edge[erv_id] = NoEdge,
                 !.erv_assignments[erv_id] = NoId,
                 !.erv_destinations[erv_id] = NoLoc,
                 !.erv_optimal_route[erv_id] = NoRoute,
                 !.erv_arrival_times[erv_id] = NoTime]
  ELSE t

\* clear_accident: the involved vehicles leave the simulation, the incident is
\* marked cleared, and the ERV goes back to its parking.
clear_accident(t, erv_id, accident_id, teleport_ok) ==
  LET gone == {accident_vehicles[accident_id][1], accident_vehicles[accident_id][2]}
      cleared == [t EXCEPT !.veh_pos = [v \in Vehicles |-> IF v \in gone THEN Gone ELSE @[v]],
                           !.accident_status[accident_id].cleared = TRUE]
  IN  return_ambulance_to_parking(cleared, erv_id, teleport_ok)

\* The body of the loop of manage_erv_operations for one ERV; ok is what the
\* simulator answers to this ERV in this tick.
ManageOne(t, erv_id, ok) ==
  LET accident_id == t.erv_assignments[erv_id]
  IN  CASE t.erv_status[erv_id] = "assigned" ->
             IF accident_id \in DOMAIN t.accident_status
             THEN dispatch_erv(t, erv_id, t.erv_target_edge[erv_id], ok, ok)
             ELSE t
        [] t.erv_status[erv_id] = "en_route" ->
             IF accident_id \in DOMAIN t.accident_status
             THEN check_erv_arrival(t, erv_id, accident_id, ok)
             ELSE t
        [] t.erv_status[erv_id] = "arrived" ->
             IF accident_id \in DOMAIN t.accident_status
                /\ ~t.accident_status[accident_id].cleared
             THEN [clear_accident(t, erv_id, accident_id, ok) EXCEPT
                     !.cen = mark_accident_cleared(@, accident_id)]
             ELSE t
        [] OTHER -> t

RECURSIVE ManageFrom(_, _, _)
ManageFrom(t, i, ok) ==
  IF i > Len(ambulance_keys) THEN t
  ELSE ManageFrom(ManageOne(t, ambulance_keys[i], ok[ambulance_keys[i]]), i + 1, ok)

\* ------------------------------------------------------- simulation loop
\* The sequence of the elements of a set of pairs in the order the two nested
\* loops over positions.items() meet them.
RECURSIVE InLoopOrder(_)
InLoopOrder(S) ==
  IF S = {} THEN <<>>
  ELSE LET first == CHOOSE p \in S : \A q \in S :
                      p[1] < q[1] \/ (p[1] = q[1] /\ p[2] <= q[2])
       IN  <<first>> \o InLoopOrder(S \ {first})

\* Vehicles that a reported collision has stopped (setSpeed 0, setStop).
Stopped == {v \in Vehicles : \E p \in reported_collisions : v = p[1] \/ v = p[2]}

\* Vehicles that still drive.
Moving == {v \in Vehicles : veh_pos[v] # Gone /\ v \notin Stopped}

\* Pairs closer than COLLISION_DISTANCE that are not reported yet.
NewPairs(pos) ==
  {p \in Pairs : /\ pos[p[1]] # Gone /\ pos[p[2]] # Gone
                 /\ pos[p[1]] # Free /\ pos[p[1]] = pos[p[2]]
                 /\ p \notin reported_collisions}

\* traci.simulationStep() and the collision detection of one tick: every new
\* pair is counted in total_accidents before any of them is handled.  A moving
\* vehicle is at a meeting place only together with another vehicle.
SimulationStep ==
  /\ pc = "step"
  /\ \E mv \in [Moving -> Spots \cup {Free}] :
     \E pos \in {[v \in Vehicles |-> IF v \in DOMAIN mv THEN mv[v] ELSE veh_pos[v]]} :
       /\ \A v \in DOMAIN mv : pos[v] # Free => \E w \in Vehicles \ {v} : pos[w] = pos[v]
       /\ \E order \in {InLoopOrder(NewPairs(pos))} :
            /\ veh_pos' = pos
            /\ reported_collisions' = reported_collisions \cup Range(order)
            /\ total_accidents' = total_accidents + Len(order)
            /\ new_collisions' = [i \in 1 .. Len(order) |->
                                    [pair |-> order[i], location |-> pos[order[i][1]]]]
            /\ pc' = IF order = <<>> THEN "manage" ELSE "collisions"
  /\ UNCHANGED <<sim_time, best_ambulance, ervVars, accVars, cenVars, callVars, v2vVars, extVars>>

\* detect_accident: the segment one of the two vehicles is on, or the segment
\* nearest to the place; each place lies on its own segment.  (The function
\* returns None when it finds neither, which the runs of Spec leave out.)
SpotEdge(spot) == IF spot = 1 THEN "A_B" ELSE "D_G"
detect_accident(location) == {SpotEdge(location)}

\* The incident id of the iteration: f"ACC_{total_accidents:03d}".
AccidentId == total_accidents

\* select_best_ambulance: the fittest member of the last generation, which the
\* random draws can make any ERV, with a route to the incident segment (None
\* when the incident segment is not known).
select_best_ambulance(accident_edge) ==
  {[best |-> b,
    route |-> IF accident_edge = NoEdge THEN NoRoute
              ELSE [to |-> accident_edge]] : b \in ERVs}

\* The guard of the assignment: the GA's pick is taken only when it is idle.
BestIsIdle(best) == best # NoErv /\ erv_status[best] = "idle"

\* One iteration of "for collision_pair, location in new_collisions", for what
\* detect_accident and select_best_ambulance return in it.
HandleWith(accident_edge, sel) ==
  /\ pc = "collisions"
  /\ new_collisions # <<>>
  /\ \E available_erv \in {get_available_erv(erv_status)} :
       LET collision_pair == Head(new_collisions).pair
           location == Head(new_collisions).location
           accident_id == AccidentId
       IN  /\ cen_accidents' = register(cen_accidents, accident_id, location, sim_time,
                                        collision_pair, accident_edge)
           /\ UNCHANGED cleared_accidents
           /\ best_ambulance' = sel.best
           /\ IF BestIsIdle(sel.best)
              THEN assign_erv_to_accident(sel.best, accident_id, location,
                                          accident_edge, collision_pair, sel.route)
              ELSE IF available_erv # NoErv
                   THEN assign_erv_to_accident(available_erv, accident_id, location,
                                               accident_edge, collision_pair, sel.route)
                   ELSE UNCHANGED <<ervVars, accVars>>
  /\ new_collisions' = Tail(new_collisions)
  /\ pc' = IF Tail(new_collisions) = <<>> THEN "manage" ELSE "collisions"
  /\ UNCHANGED <<veh_pos, sim_time, reported_collisions, total_accidents, callVars, v2vVars, extVars>>

HandleCollision ==
  /\ new_collisions # <<>>
  /\ \E accident_edge \in detect_accident(Head(new_collisions).location) :
     \E sel \in select_best_ambulance(accident_edge) :
       HandleWith(accident_edge, sel)

\* What the simulator can answer in one tick: an idle ERV is not asked.
Answers == {f \in [ERVs -> BOOLEAN] : \A e \in ERVs : erv_status[e] = "idle" => f[e]}

\* manage_erv_operations(ambulance_readiness.keys()), which ends the tick.
ManageErvOperations ==
  /\ pc = "manage"
  /\ \E ok \in Answers :
     \E t \in {ManageFrom(Tables, 1, ok)} :
       /\ erv_assignments' = t.erv_assignments
       /\ erv_status' = t.erv_status
       /\ erv_destinations' = t.erv_destinations
       /\ erv_target_edge' = t.erv_target_edge
       /\ erv_optimal_route' = t.erv_optimal_route
       /\ erv_arrival_times' = t.erv_arrival_times
       /\ accident_status' = t.accident_status
       /\ veh_pos' = t.veh_pos
       /\ cen_accidents' = t.cen[1]
       /\ cleared_accidents' = t.cen[2]
  /\ pc' = "step"
  /\ UNCHANGED <<new_collisions, sim_time, reported_collisions, total_accidents,
                 best_ambulance, accident_vehicles, callVars, v2vVars, extVars>>

\* A segment id such as "A_B" is written <<"A", "B">>: its first and its last
\* character, the junctions it leaves and enters.  Python orders the ids as
\* strings, which is the order of the first and then of the last character.
Nodes == <<"A", "B", "C", "D", "E", "F", "G", "H", "I">>
NodeRank(n) == CHOOSE i \in 1 .. Len(Nodes) : Nodes[i] = n
EdgeBefore(e1, e2) ==
  \/ NodeRank(e1[1]) < NodeRank(e2[1])
  \/ e1[1] = e2[1] /\ NodeRank(e1[2]) < NodeRank(e2[2])

NoPath == <<>>
Inf == -1

\* get_edge_weight for what its two queries answer, Failed for a query that
\* raises: length * (1 + congestion / 10 * 2), with congestion = 5.0 when
\* get_fuzzy_congestion raises, and 100.0 when traci.edge.getLength does.
Failed == -1
edge_weight(edge_length, reading) ==
  IF edge_length = Failed THEN 100
  ELSE (edge_length * (10 + 2 * (IF reading = Failed THEN 5 ELSE reading))) \div 10

\* get_edge_weight on the grid: every segment the simulator knows is
\* EDGE_LENGTH long and the congestion levels are multiples of 5, which keeps
\* the weight an integer; the length query fails for any other segment.
get_edge_weight(edge_id) ==
  IF edge_id \in DOMAIN congestion
  THEN edge_weight(EDGE_LENGTH, congestion[edge_id])
  ELSE edge_weight(Failed, Failed)

\* get_edge_neighbors: the segments lane 0 of edge_id leads to.
get_edge_neighbors(edge_id) == IF edge_id \in DOMAIN links THEN links[edge_id] ELSE {}

\* traci.simulation.findRoute: the simulator's own router, which may know a
\* connection that lane 0 does not have.
findRoute(start_edge, end_edge) ==
  IF sumo_connects THEN <<start_edge, end_edge>> ELSE NoPath

\* sum(get_edge_weight(e) for e in route)
RECURSIVE SumWeights(_)
SumWeights(route) ==
  IF route = <<>> THEN 0 ELSE get_edge_weight(Head(route)) + SumWeights(Tail(route))

\* heapq.heappop on tuples (cost, edge, path): least cost, then least id.
heappop(pq) ==
  CHOOSE x \in pq : \A y \in pq :
    \/ x.cost < y.cost
    \/ x.cost = y.cost /\ (x.edge = y.edge \/ EdgeBefore(x.edge, y.edge))

\* "for next_edge in neighbors": the entries pushed and the costs recorded
\* when `entry` is expanded.
Expand(entry, visited, costs, pq) ==
  LET better == {n \in get_edge_neighbors(entry.edge) \ visited :
                   n \notin DOMAIN costs \/ entry.cost + get_edge_weight(n) < costs[n]}
  IN  [costs |-> [n \in DOMAIN costs \cup better |->
                    IF n \in better THEN entry.cost + get_edge_weight(n) ELSE costs[n]],
       pq |-> pq \cup {[cost |-> entry.cost + get_edge_weight(n), edge |-> n,
                        path |-> Append(entry.path, n)] : n \in better}]

\* "while pq and iterations < max_iterations"
RECURSIVE Search(_, _, _, _, _)
Search(pq, visited, costs, iterations, end_edge) ==
  IF pq = {} \/ iterations >= max_iterations
  THEN [path |-> NoPath, cost |-> Inf, iterations |-> iterations]
  ELSE LET current == heappop(pq)
       IN  IF current.edge \in visited
           THEN Search(pq \ {current}, visited, costs, iterations + 1, end_edge)
           ELSE IF current.edge = end_edge
           THEN [path |-> current.path, cost |-> current.cost, iterations |-> iterations + 1]
           ELSE LET e == Expand(current, visited \cup {current.edge}, costs, pq \ {current})
                IN  Search(e.pq, visited \cup {current.edge}, e.costs, iterations + 1, end_edge)

\* The test that answers without a search.
SameEdge(start_edge, end_edge) == start_edge = end_edge

\* What route_cache keeps for a key.
CacheEntry(path, cost) == [path |-> path, cost |-> cost]

\* Faulty variant: the result that was not found is cached like the others.
Faulty_NotFound(cache, cache_key, iterations) ==
  [path |-> NoPath, cost |-> Inf, iterations |-> iterations,
   cache |-> Put(cache, cache_key, CacheEntry(NoPath, Inf))]

\* "return None, float('inf')" after the search and the fallback: route_cache
\* is left as it is.
NotFound(cache, cache_key, iterations) ==
  [path |-> NoPath, cost |-> Inf, iterations |-> iterations, cache |-> cache]

\* dijkstra_shortest_path(start_edge, end_edge) with route_cache = cache: the
\* result, the iterations of the search, and the cache after the call.
dijkstra_shortest_path(cache, start_edge, end_edge) ==
  LET cache_key == <<start_edge, end_edge>>
  IN  IF SameEdge(start_edge, end_edge)
      THEN [path |-> <<start_edge>>, cost |-> 0, iterations |-> 0, cache |-> cache]
      ELSE IF cache_key \in DOMAIN cache
      THEN [path |-> cache[cache_key].path, cost |-> cache[cache_key].cost,
            iterations |-> 0, cache |-> cache]
      ELSE LET found == Search({[cost |-> 0, edge |-> start_edge, path |-> <<start_edge>>]},
                               {}, [e \in {start_edge} |-> 0], 0, end_edge)
               fallback_route == findRoute(start_edge, end_edge)
           IN  IF found.path # NoPath
               THEN [path |-> found.path, cost |-> found.cost, iterations |-> found.iterations,
                     cache |-> Put(cache, cache_key, CacheEntry(found.path, found.cost))]
               ELSE IF fallback_route # NoPath
               THEN [path |-> fallback_route, cost |-> SumWeights(fallback_route),
                     iterations |-> found.iterations,
                     cache |-> Put(cache, cache_key,
                                   CacheEntry(fallback_route, SumWeights(fallback_route)))]
               ELSE NotFound(cache, cache_key, found.iterations)

\* ------------------------------------------------------- the GA (best_erv.py)
ambulance_readiness == [ambulance0 |-> 85, ambulance1 |-> 70, ambulance2 |-> 90]
ambulance_anchor_edges ==
  [ambulance0 |-> <<"A", "B">>, ambulance1 |-> <<"D", "G">>, ambulance2 |-> <<"H", "I">>]
\* An id that starts with ':' (a junction), in place of a segment.
Junction == <<":", "J">>
NoSegment == <<>>
\* traci.vehicle.getRoadID of the three ERVs while a selection runs: two stand
\* on segments of the stretch, the third on a junction.
getRoadID == [ambulance0 |-> <<"A", "B">>, ambulance1 |-> <<"B", "E">>, ambulance2 |-> Junction]

\* The edge proximity bonus of fitness, in thousandths.
edge_bonus(individual, accident_edge) ==
  IF accident_edge = NoSegment THEN 0
  ELSE IF ambulance_anchor_edges[individual] = accident_edge THEN 1500
  ELSE IF \/ ambulance_anchor_edges[individual][1] = accident_edge[1]
          \/ ambulance_anchor_edges[individual][2] = accident_edge[2]
       THEN 800
       ELSE 0

\* fitness(individual, accident_x, accident_y, positions, accident_edge) with
\* route_cache = cache; straight_dist is the distance of the ERV to the place.
\* The score is in thousandths: 1000 * (readiness / 100 - route_distance / 500
\* + edge_bonus).
fitness(cache, individual, straight_dist, positions, accident_edge) ==
  IF individual \notin positions
  THEN [score |-> -9999000, routed |-> FALSE, route_cost |-> Inf, bonus |-> 0, cache |-> cache]
  ELSE LET current_edge == getRoadID[individual]
           search == current_edge # NoSegment /\ accident_edge # NoSegment
                     /\ current_edge[1] # ":"
           r == IF search THEN dijkstra_shortest_path(cache, current_edge, accident_edge)
                ELSE [path |-> NoPath, cost |-> Inf, cache |-> cache]
           route_distance == IF r.path # NoPath THEN r.cost ELSE straight_dist
       IN  [score |-> 10 * ambulance_readiness[individual] - 2 * route_distance
                      + edge_bonus(individual, accident_edge),
            routed |-> r.path # NoPath,
            route_cost |-> r.cost,
            bonus |-> edge_bonus(individual, accident_edge),
            cache |-> r.cache]

\* tournament_selection: the individuals that can come out of TOURNAMENT_K
\* draws, a challenger taking over only when it is strictly fitter.
RECURSIVE tournament_selection(_, _, _)
tournament_selection(pop, fitnesses, draws) ==
  IF draws = 1 THEN pop
  ELSE {IF fitnesses[challenger] > fitnesses[best] THEN challenger ELSE best :
          best \in tournament_selection(pop, fitnesses, draws - 1), challenger \in pop}

\* crossover and mutate: what either can return, whatever random() gives.
crossover(parent1, parent2) == {parent1, parent2}
mutate(individual) == {individual} \cup ERVs

\* The populations one generation can produce from pop, as sets of members:
\* POP_SIZE children, each of them mutate(crossover(p1, p2)).
new_population(pop, fitnesses) ==
  LET parents == tournament_selection(pop, fitnesses, TOURNAMENT_K)
      children == UNION {mutate(child) :
                           child \in UNION {crossover(p1, p2) : p1 \in parents, p2 \in parents}}
  IN  {members \in SUBSET children : members # {} /\ Cardinality(members) <= POP_SIZE}

\* One generation more for each of the runs of the GA; a run is the members of
\* its current population and the individuals whose fitness it has computed.
Generation(runs, fitnesses) ==
  UNION {{[population |-> members, scored |-> run.scored \cup members] :
            members \in new_population(run.population, fitnesses)} : run \in runs}

\* "for gen in range(GENERATIONS)".  Once a generation adds no run and drops
\* none, the generations that remain do not either.
RECURSIVE Evolve(_, _, _)
Evolve(runs, fitnesses, gen) ==
  IF gen = GENERATIONS \/ Generation(runs, fitnesses) = runs THEN runs
  ELSE Evolve(Generation(runs, fitnesses), fitnesses, gen + 1)

\* max(final_fitnesses, key=final_fitnesses.get): a fittest member of the last
\* population, the first of them in the order the population lists them.
Fittest(population, fitnesses) ==
  {b \in population : \A o \in population : fitnesses[b] >= fitnesses[o]}

\* route_cache.clear()
ClearedCache(cache) == EmptyDict

\* The cache after fitness has run for the individuals in `scored`: each run
\* of fitness adds at most the route of its own individual.
CacheAfter(evaluations, scored) ==
  [key \in UNION {DOMAIN evaluations[e].cache : e \in scored} |->
     evaluations[CHOOSE e \in scored : key \in DOMAIN evaluations[e].cache].cache[key]]

\* ------------------------------------------------- the detour (vehicle.py)
\* The members of a set of segment ids as a list, in the order of the ids.
RECURSIVE InIdOrder(_)
InIdOrder(S) ==
  IF S = {} THEN <<>>
  ELSE LET first == CHOOSE e \in S : \A o \in S : e = o \/ EdgeBefore(e, o)
       IN  <<first>> \o InIdOrder(S \ {first})

\* get_outgoing_edges of find_path_bfs_manual: the segments lane 0 leads to
\* and, when there are none, every segment of traci.edge.getIDList() whose id
\* begins with the junction the id of edge_id ends with.
get_outgoing_edges(edge_id) ==
  IF get_edge_neighbors(edge_id) # {}
  THEN InIdOrder(get_edge_neighbors(edge_id))
  ELSE InIdOrder({other_edge \in DOMAIN links : other_edge[1] = edge_id[2]})

\* "for next_edge in neighbors" from the i-th neighbour on: the path, once
\* end_edge is met, or else the queue and the visited set after the loop.
RECURSIVE VisitNeighbors(_, _, _, _, _, _, _)
VisitNeighbors(neighbors, i, path, visited, queue, end_edge, blocked_edge) ==
  IF i > Len(neighbors) THEN [found |-> NoPath, visited |-> visited, queue |-> queue]
  ELSE IF neighbors[i] = blocked_edge \/ neighbors[i] \in visited
  THEN VisitNeighbors(neighbors, i + 1, path, visited, queue, end_edge, blocked_edge)
  ELSE IF neighbors[i] = end_edge
  THEN [found |-> Append(path, neighbors[i]), visited |-> visited, queue |-> queue]
  ELSE VisitNeighbors(neighbors, i + 1, path, visited \cup {neighbors[i]},
                      Append(queue, [edge |-> neighbors[i], path |-> Append(path, neighbors[i])]),
                      end_edge, blocked_edge)

\* Faulty variant: queue.pop(), the entry that was queued last.
Faulty_popleft(queue) ==
  [entry |-> queue[Len(queue)], rest |-> SubSeq(queue, 1, Len(queue) - 1)]

\* "current_edge, path = queue.popleft()": the entry taken and the queue left.
popleft(queue) == [entry |-> Head(queue), rest |-> Tail(queue)]

\* "while queue and iterations < max_iterations"
RECURSIVE BfsLoop(_, _, _, _, _)
BfsLoop(queue, visited, iterations, end_edge, blocked_edge) ==
  IF queue = <<>> \/ iterations >= bfs_max_iterations THEN NoPath
  ELSE LET taken == popleft(queue)
           v == VisitNeighbors(get_outgoing_edges(taken.entry.edge), 1, taken.entry.path,
                               visited, taken.rest, end_edge, blocked_edge)
       IN  IF v.found # NoPath THEN v.found
           ELSE BfsLoop(v.queue, v.visited, iterations + 1, end_edge, blocked_edge)

\* Vehicle.find_path_bfs_manual(start_edge, end_edge, blocked_edge); None is
\* NoPath.
find_path_bfs_manual(start_edge, end_edge, blocked_edge) ==
  IF start_edge = end_edge THEN <<start_edge>>
  ELSE IF start_edge = blocked_edge THEN NoPath
  ELSE BfsLoop(<<[edge |-> start_edge, path |-> <<start_edge>>]>>, {start_edge}, 0,
               end_edge, blocked_edge)

\* ------------------------------------------------ Vehicle.listen_and_reroute
\* traci.vehicle.setSpeed(vid, -1) and the state before any setSpeed: the
\* vehicle drives at the speed the simulator chooses.
NoSpeed == -1

\* The route every vehicle is spawned with, and the segment it waits on
\* (traci.vehicle.getRoadID) while the model looks at it.
SpawnRoute == <<<<"A", "B">>, <<"B", "C">>, <<"C", "F">>, <<"F", "I">>>>
VehicleRoad == <<"A", "B">>

\* route[current_idx:], and the whole route when current_edge is not in it.
RemainingRoute(route, current_edge) ==
  IF \E k \in 1 .. Len(route) : route[k] = current_edge
  THEN SubSeq(route, CHOOSE k \in 1 .. Len(route) :
                       route[k] = current_edge /\ \A j \in 1 .. (k - 1) : route[j] # current_edge,
              Len(route))
  ELSE route

\* Faulty variant: listen_and_reroute looks at an incident it has heard of
\* like at a new one.
Faulty_AlreadyHeard(veh, acc_id) == FALSE

\* "if acc_id in self.accidents_received: continue"
AlreadyHeard(veh, acc_id) == acc_id \in veh.accidents_received

\* One pass of "for acc_id, data in cen.accidents.items()" (the second loop of
\* listen_and_reroute) for the incident acc_id; veh is the vehicle's state.
ListenOne(veh, vehicle_id, acc_id, data, in_range) ==
  IF AlreadyHeard(veh, acc_id) THEN veh
  ELSE IF vehicle_id \in Range(data.vehicles_involved)
  THEN [veh EXCEPT !.accidents_received = @ \cup {acc_id}]
  ELSE IF ~in_range THEN veh
  ELSE LET heard == [veh EXCEPT !.accidents_received = @ \cup {acc_id}]
           new_route == find_path_bfs_manual(VehicleRoad, veh.route[Len(veh.route)], data.edge)
       IN  IF data.edge = NoSegment THEN heard
           ELSE IF data.edge \notin Range(RemainingRoute(veh.route, VehicleRoad)) THEN heard
           ELSE IF new_route # NoPath /\ new_route # veh.route /\ data.edge \notin Range(new_route)
           THEN [heard EXCEPT !.route = new_route, !.rerouted_for = @ \cup {acc_id},
                              !.set_route_calls =
                                 Append(@, [acc_id |-> acc_id, accident_edge |-> data.edge,
                                            new_route |-> new_route])]
           ELSE heard

RECURSIVE ListenFrom(_, _, _, _, _)
ListenFrom(veh, vehicle_id, ids, accidents, in_range) ==
  IF ids = <<>> THEN veh
  ELSE ListenFrom(ListenOne(veh, vehicle_id, Head(ids), accidents[Head(ids)], in_range),
                  vehicle_id, Tail(ids), accidents, in_range)

\* The keys of cen.accidents in the order of the dict: the ids are registered
\* in rising order.
RECURSIVE Rising(_)
Rising(S) ==
  IF S = {} THEN <<>>
  ELSE LET least == CHOOSE x \in S : \A y \in S : x <= y
       IN  <<least>> \o Rising(S \ {least})

\* Faulty variant: listen_and_reroute without its two checks at the top, so
\* that a vehicle of one incident is rerouted for another.
Faulty_listen_and_reroute(veh, vehicle_id, accidents, in_range) ==
  ListenFrom(veh, vehicle_id, Rising(DOMAIN accidents), accidents, in_range)

\* Vehicle.listen_and_reroute(cen, cen_positions, graph, comm_range): nothing
\* for a vehicle of an accident, whatever the state of the incident.
listen_and_reroute(veh, vehicle_id, accidents, in_range) ==
  IF veh.is_in_accident THEN veh
  ELSE IF \E acc_id \in DOMAIN accidents : vehicle_id \in Range(accidents[acc_id].vehicles_involved)
  THEN [veh EXCEPT !.is_in_accident = TRUE]
  ELSE ListenFrom(veh, vehicle_id, Rising(DOMAIN accidents), accidents, in_range)

\* The Vehicle objects as one value, and the calls cen.broadcast makes on them
\* (one call per incident it works for and vehicle it reaches).
VehicleStates ==
  [v \in Vehicles |-> [is_in_accident |-> is_in_accident[v],
                       accidents_received |-> accidents_received[v],
                       route |-> veh_route[v],
                       rerouted_for |-> rerouted_for[v],
                       speed |-> veh_speed[v],
                       set_route_calls |-> set_route_calls[v]]]

InitListenIdle ==
  /\ is_in_accident = [v \in Vehicles |-> FALSE]
  /\ accidents_received = [v \in Vehicles |-> {}]
  /\ veh_route = [v \in Vehicles |-> SpawnRoute]
  /\ rerouted_for = [v \in Vehicles |-> {}]
  /\ veh_speed = [v \in Vehicles |-> NoSpeed]
  /\ set_route_calls = [v \in Vehicles |-> <<>>]

\* ----------------------------------------- the ant search (Vehicle_Rerouting.py)
NUM_ANTS == 12
MAX_ANT_HOPS == 30
\* pheromone values are kept in units of 0.00001; evaporation_rate = 0.1 is
\* EvaporationPermille / 1000.
PheromoneUnit == 100000
EvaporationPermille == 100

\* default_get_successor_edges: the segments the simulator reports after edge.
default_get_successor_edges(edge) == get_edge_neighbors(edge)

\* default_get_fuzzy_congestion: the reading of the segment cut to [0, 1], and
\* 1.0 for a segment the simulator does not know.
default_get_fuzzy_congestion(edge) ==
  IF edge \in DOMAIN congestion
  THEN (IF congestion[edge] < 0 THEN 0 ELSE IF congestion[edge] > 1 THEN 1 ELSE congestion[edge])
  ELSE 1

\* update_pheromone(edge, delta):
\* pheromone[edge] = pheromone.get(edge, 1.0) * (1 - evaporation_rate) + delta
update_pheromone(table, edge, delta) ==
  Put(table, edge,
      ((IF edge \in DOMAIN table THEN table[edge] ELSE PheromoneUnit)
         * (1000 - EvaporationPermille)) \div 1000 + delta)

\* select_next_edge: the segments random.choices can return.  Every weight
\* tau * eta is positive, so each candidate that is not blocked can come out;
\* None (the empty set here) when all candidates are blocked.
select_next_edge(blocked, candidate_edges) == candidate_edges \ blocked

\* The walk of one ant from `current` on ("while current != end and hops <
\* MAX_ANT_HOPS"): the trials it can end with, each the path walked and
\* whether the ant stands on end.
RECURSIVE AntTrial(_, _, _, _, _, _)
AntTrial(blocked, path, current, visited, hops, end) ==
  IF current = end THEN {[path |-> path, reached |-> TRUE]}
  ELSE IF hops >= MAX_ANT_HOPS THEN {[path |-> path, reached |-> FALSE]}
  ELSE IF default_get_successor_edges(current) = {} THEN {[path |-> path, reached |-> FALSE]}
  ELSE IF select_next_edge(blocked, default_get_successor_edges(current)) = {}
  THEN {[path |-> path, reached |-> FALSE]}
  ELSE UNION {IF next_edge \in visited \/ next_edge \in blocked
              THEN {[path |-> path, reached |-> FALSE]}
              ELSE AntTrial(blocked, Append(path, next_edge), next_edge,
                            visited \cup {next_edge}, hops + 1, end) :
                next_edge \in select_next_edge(blocked, default_get_successor_edges(current))}

\* What a trial leaves for "if current == end": its path, NoPath for a trial
\* that does not reach end.
AntWalk(blocked, path, current, visited, hops, end) ==
  {IF trial.reached THEN trial.path ELSE NoPath :
     trial \in AntTrial(blocked, path, current, visited, hops, end)}

\* sum(get_fuzzy_congestion(e) for e in path)
RECURSIVE PathScore(_)
PathScore(path) ==
  IF path = <<>> THEN 0 ELSE default_get_fuzzy_congestion(Head(path)) + PathScore(Tail(path))

\* "if score < best_score" after the walk of one ant.
BetterAnt(best, path) ==
  IF path # NoPath /\ (best.path = NoPath \/ PathScore(path) < best.score)
  THEN [path |-> path, score |-> PathScore(path)]
  ELSE best

\* "for _ in range(NUM_ANTS)": the (best_path, best_score) the loop can end
\* with, from its ant-th pass on.
RECURSIVE AntsFrom(_, _, _)
AntsFrom(ant, bests, walks) ==
  IF ant > NUM_ANTS THEN bests
  ELSE AntsFrom(ant + 1, {BetterAnt(best, path) : best \in bests, path \in walks}, walks)

\* "for e in best_path: update_pheromone(e, delta)"
RECURSIVE Reinforce(_, _, _)
Reinforce(table, path, delta) ==
  IF path = <<>> THEN table
  ELSE Reinforce(update_pheromone(table, Head(path), delta), Tail(path), delta)

\* delta = 1.0 / (1.0 + best_score)
Delta(best_score) == PheromoneUnit \div (1 + best_score)

\* get_path_from_ants(start, end, ...): what it can return, with the pheromone
\* table it leaves.
get_path_from_ants(table, blocked, start, end) ==
  IF start = end THEN {[path |-> <<start>>, score |-> 0, pheromone |-> table]}
  ELSE {[path |-> best.path, score |-> best.score,
         pheromone |-> IF best.path # NoPath
                       THEN Reinforce(table, best.path, Delta(best.score))
                       ELSE table] :
          best \in AntsFrom(1, {[path |-> NoPath, score |-> 0]},
                            AntWalk(blocked, <<start>>, start, {start}, 0, end))}

InitAntIdle ==
  /\ pheromone = EmptyDict
  /\ blocked_edges = {}
  /\ searches = 0

\* The network outside the route functions' own specifications: a stretch of
\* the grid, and no call made.
GridSegments == {<<"A", "B">>, <<"B", "C">>, <<"B", "E">>, <<"C", "F">>, <<"E", "F">>, <<"F", "I">>}
GridLinks ==
  {<<<<"A", "B">>, <<"B", "C">>>>, <<<<"A", "B">>, <<"B", "E">>>>,
   <<<<"B", "C">>, <<"C", "F">>>>, <<<<"B", "E">>, <<"E", "F">>>>,
   <<<<"C", "F">>, <<"F", "I">>>>, <<<<"E", "F">>, <<"F", "I">>>>}
LinksOf(L) == [e \in GridSegments |-> {n \in GridSegments : <<e, n>> \in L}]
NoCall == [fn |-> "none"]

InitPathsIdle ==
  /\ links = LinksOf(GridLinks)
  /\ congestion = [e \in GridSegments |-> 0]
  /\ sumo_connects = FALSE
  /\ route_cache = EmptyDict
  /\ returned = NoCall
  /\ selection = NoCall

InitSim ==
  /\ pc = "step"
  /\ new_collisions = <<>>
  /\ veh_pos = [v \in Vehicles |-> Free]
  /\ sim_time = 0
  /\ reported_collisions = {}
  /\ total_accidents = 0
  /\ best_ambulance = "unset"
  /\ erv_assignments = [e \in ERVs |-> NoId]
  /\ erv_status = [e \in ERVs |-> "idle"]
  /\ erv_destinations = [e \in ERVs |-> NoLoc]
  /\ erv_target_edge = [e \in ERVs |-> NoEdge]
  /\ erv_optimal_route = [e \in ERVs |-> NoRoute]
  /\ erv_arrival_times = [e \in ERVs |-> NoTime]
  /\ accident_status = EmptyDict
  /\ accident_vehicles = EmptyDict

InitCen ==
  /\ cen_accidents = EmptyDict
  /\ cleared_accidents = {}

InitCalls ==
  /\ mark_called = {}
  /\ mark_registered = {}
  /\ bcast_updated = {}
  /\ bcast_notified = {}
  /\ last_call = "none"

InitRelay ==
  /\ stopped_vehicles = {}
  /\ message_cache = [n \in EdgeNodeIds(variant) |-> {}]
  /\ message_history = EmptyDict
  /\ hop_count_stats = EmptyDict
  /\ accident_alerts_received = <<>>
  /\ alerts_sent = 0

InitV2VIdle ==
  /\ variant = "review2"
  /\ v2v_pos = [v \in 0 .. NUM_INITIAL_VEHICLES |-> 1]
  /\ InitRelay

Init == InitSim /\ InitCen /\ InitCalls /\ InitV2VIdle /\ InitPathsIdle /\ InitListenIdle /\ InitAntIdle

Next == SimulationStep \/ HandleCollision \/ ManageErvOperations

Spec == Init /\ [][Next]_vars

\* C25 (fails): every ERV that is arrived when manage_erv_operations is called
\* is idle when the call returns, and its incident is then cleared in
\* accident_status and in the registry.
C25_ArrivedIsReleased ==
  [][pc = "manage" =>
       \A e \in ERVs :
         erv_status[e] = "arrived" =>
           /\ erv_status'[e] = "idle"
           /\ accident_status'[erv_assignments[e]].cleared
           /\ erv_assignments[e] \in cleared_accidents']_vars

\* C29 (fails): an ERV holds an incident only when an edge node has accepted
\* the emergency alert of that incident's collision.
C29_AlertBeforeDispatch ==
  \A e \in ERVs :
    erv_assignments[e] # NoId =>
      \E i \in 1 .. Len(accident_alerts_received) :
        accident_alerts_received[i].vehicles_involved = accident_vehicles[erv_assignments[e]]

\* ------------------------------------- the loop with collisions in one tick
\* detect_accident with the return None at its end: both vehicles are inside a
\* junction and no segment is within 50 m of the place.
detect_accident_anywhere(location) == detect_accident(location) \cup {NoEdge}

\* The segments the ERVs are parked on (ambulance_anchor_edges, in the ids
\* SpotEdge uses).
ParkingEdge(erv_id) ==
  IF erv_id = "ambulance0" THEN "A_B" ELSE IF erv_id = "ambulance1" THEN "D_G" ELSE "H_I"

\* traci.vehicle.getRoadID(erv_id) in the tick of the collisions: no ERV has
\* been dispatched, each stands on its parking segment.
ErvRoadID(erv_id) == ParkingEdge(erv_id)

\* select_best_ambulance with the route it returns: the one
\* dijkstra_shortest_path finds from the segment of the pick to the incident
\* segment, and None when it finds none or the pick is inside a junction.
select_best_ambulance_any_route(accident_edge) ==
  {[best |-> b,
    route |-> IF accident_edge = NoEdge THEN NoRoute
              ELSE [from |-> ErvRoadID(b), to |-> accident_edge]] : b \in ERVs}
    \cup {[best |-> b, route |-> NoRoute] : b \in ERVs}

\* The tick of the first collisions.
FirstCollisions ==
  /\ total_accidents = 0
  /\ SimulationStep

\* A later tick, in which no vehicle meets another.
QuietStep ==
  /\ total_accidents > 0
  /\ pc = "step"
  /\ pc' = "manage"
  /\ UNCHANGED <<new_collisions, veh_pos, sim_time, reported_collisions, total_accidents,
                 best_ambulance, ervVars, accVars, cenVars, callVars, v2vVars, extVars>>

HandleCollisionAnywhere ==
  /\ new_collisions # <<>>
  /\ \E accident_edge \in detect_accident_anywhere(Head(new_collisions).location) :
     \E sel \in select_best_ambulance_any_route(accident_edge) :
       HandleWith(accident_edge, sel)

NextDispatch ==
  FirstCollisions \/ QuietStep \/ HandleCollisionAnywhere \/ ManageErvOperations

SpecDispatch == Init /\ [][NextDispatch]_vars

\* C24 (fails): every ERV that is assigned when manage_erv_operations is called
\* is en_route when the call returns, with or without a stored route and with
\* or without a known incident segment.
C24_AssignedIsDispatched ==
  [][pc = "manage" =>
       \A e \in ERVs : erv_status[e] = "assigned" => erv_status'[e] = "en_route"]_vars


\* C37 (fails): the route stored for an ERV that is assigned to an incident
\* and not yet dispatched starts at the segment the ERV stands on and ends at
\* the incident segment, whether the GA or the fallback chose the ERV.
C37_StoredRouteIsOwn ==
  \A e \in ERVs :
    (erv_status[e] = "assigned" /\ erv_optimal_route[e] # NoRoute) =>
      /\ erv_optimal_route[e].from = ErvRoadID(e)
      /\ erv_optimal_route[e].to = erv_target_edge[e]

\* ------------------------------------------- call sequences on the registry
\* The times a call can be made at: the clock does not run backwards.
Times == {t \in {sim_time, sim_time + 5, sim_time + CEN_INTERVAL} : t <= MaxTime}
CenIds == 1 .. MaxIds
CenPairs == {<<0, 1>>, <<2, 3>>}
\* The vehicles of vehicles_dict that are within comm_range of the node.
InRangeSets == SUBSET {0, 2}

CenRegister ==
  /\ \E accident_id \in CenIds, now \in Times, vehicles_involved \in CenPairs :
       /\ cen_accidents' = register(cen_accidents, accident_id, 1, now,
                                    vehicles_involved, SpotEdge(1))
       /\ sim_time' = now
  /\ bcast_updated' = {}
  /\ bcast_notified' = {}
  /\ last_call' = "register"
  /\ UNCHANGED <<cleared_accidents, mark_called, mark_registered>>
  /\ UNCHANGED <<pc, new_collisions, veh_pos, reported_collisions, total_accidents,
                 best_ambulance, ervVars, accVars, v2vVars, extVars>>

CenMarkCleared ==
  /\ \E accident_id \in CenIds :
     \E c \in {mark_accident_cleared(<<cen_accidents, cleared_accidents>>, accident_id)} :
       /\ cen_accidents' = c[1]
       /\ cleared_accidents' = c[2]
       /\ mark_called' = mark_called \cup {accident_id}
       /\ mark_registered' = IF accident_id \in DOMAIN cen_accidents
                             THEN mark_registered \cup {accident_id}
                             ELSE mark_registered
  /\ bcast_updated' = {}
  /\ bcast_notified' = {}
  /\ last_call' = "mark_accident_cleared"
  /\ UNCHANGED <<simVars, ervVars, accVars, v2vVars, extVars>>

CenBroadcast ==
  /\ \E now \in Times, in_range \in InRangeSets :
     \E b \in {broadcast(<<cen_accidents, cleared_accidents>>, now, in_range)} :
       /\ cen_accidents' = b.accidents
       /\ bcast_updated' = b.updated
       /\ bcast_notified' = b.notified
       /\ sim_time' = now
  /\ last_call' = "broadcast"
  /\ UNCHANGED <<cleared_accidents, mark_called, mark_registered>>
  /\ UNCHANGED <<pc, new_collisions, veh_pos, reported_collisions, total_accidents,
                 best_ambulance, ervVars, accVars, v2vVars, extVars>>

NextCEN == CenRegister \/ CenMarkCleared \/ CenBroadcast

SpecCEN == Init /\ [][NextCEN]_vars

\* -------------------------------------------- properties of the registry
\* What the latest call did for an incident: a callback or a new last_time.
Worked(accident_id) ==
  accident_id \in bcast_updated \/ \E v \in Vehicles : <<accident_id, v>> \in bcast_notified

\* C10: once mark_accident_cleared(id) has been called for an id that was in
\* the registry at that call, no later broadcast does any work for id (no
\* callback, no new last_time), whatever is registered afterwards and however
\* much time has passed.
C10_ClearedIsSilent == \A id \in mark_registered : ~Worked(id)

\* A marked incident was registered again, its interval has elapsed, and the
\* broadcast that has just run worked for another incident only.
C10_Witness ==
  /\ bcast_updated # {}
  /\ \E id \in mark_registered :
       /\ ~cen_accidents[id].cleared
       /\ sim_time - cen_accidents[id].last_time >= CEN_INTERVAL

\* C10 as it is worded (fails): after any call mark_accident_cleared(id), no
\* later broadcast does any work for id.
C10_AnyMarkIsSilent == \A id \in mark_called : ~Worked(id)

\* C12: mark_accident_cleared is idempotent: a second call for the same id
\* leaves the registry as the first call left it, and a call for an id that is
\* not registered changes nothing.
C12_MarkIdempotent ==
  \A accident_id \in CenIds :
    /\ mark_accident_cleared(
         mark_accident_cleared(<<cen_accidents, cleared_accidents>>, accident_id), accident_id)
       = mark_accident_cleared(<<cen_accidents, cleared_accidents>>, accident_id)
    /\ accident_id \notin DOMAIN cen_accidents =>
         mark_accident_cleared(<<cen_accidents, cleared_accidents>>, accident_id)
         = <<cen_accidents, cleared_accidents>>

\* One incident has been marked cleared, and the call has also been made for
\* an id that is not in the registry.
C12_Witness ==
  /\ \E id \in mark_registered : cen_accidents[id].cleared
  /\ \E id \in mark_called : id \notin DOMAIN cen_accidents

\* C13 (fails): over any sequence of register, mark_accident_cleared and
\* broadcast calls the cleared flag of an incident never goes from true back to
\* false, and no entry leaves the registry.
C13_ClearedIsFinal ==
  [][\A id \in DOMAIN cen_accidents :
       /\ id \in DOMAIN cen_accidents'
       /\ cen_accidents[id].cleared => cen_accidents'[id].cleared]_vars

\* C30: broadcast(now) works for an incident that is not cleared exactly when
\* now - last_time >= interval, and then sets its last_time to now; an
\* incident that is cleared or not due keeps its last_time.  last_time being
\* the time of the registration or of the latest broadcast and never going
\* back, no broadcast comes sooner than interval after the registration or
\* after the broadcast before it.
C30_BroadcastWhenDue ==
  [][/\ last_call' = "broadcast" =>
          \A id \in DOMAIN cen_accidents :
            /\ id \in bcast_updated' <=>
                 (/\ ~IsCleared(<<cen_accidents, cleared_accidents>>, id)
                  /\ sim_time' - cen_accidents[id].last_time >= CEN_INTERVAL)
            /\ cen_accidents'[id].last_time =
                 IF id \in bcast_updated' THEN sim_time' ELSE cen_accidents[id].last_time
     /\ \A id \in DOMAIN cen_accidents :
          cen_accidents'[id].last_time >= cen_accidents[id].last_time]_vars

\* A call has broadcast one incident and left alone another, which is not
\* cleared and whose last_time is less than interval ago.
C30_Witness ==
  /\ last_call = "broadcast"
  /\ bcast_updated # {}
  /\ \E id \in DOMAIN cen_accidents \ bcast_updated :
       /\ ~IsCleared(<<cen_accidents, cleared_accidents>>, id)
       /\ sim_time - cen_accidents[id].last_time < CEN_INTERVAL
  /\ \E id \in DOMAIN cen_accidents \ bcast_updated :
       /\ ~IsCleared(<<cen_accidents, cleared_accidents>>, id)
       /\ cen_accidents[id].last_time < sim_time
       /\ sim_time - cen_accidents[id].last_time < CEN_INTERVAL

\* ------------------------------------------------------- V2V alert relay
\* The vehicles stand on a straight road, at points one communication range
\* apart; the first point is within range of edge nodes, the others of none.
Points == 1 .. NumPoints
PointXY(point) == <<V2V_COMMUNICATION_RANGE * point, 100>>

\* traci.vehicle.getIDList(): veh0 .. veh3 and one ambulance.
AmbulanceVehicle == NUM_INITIAL_VEHICLES
V2VVehicles == [i \in 1 .. Cardinality(DOMAIN v2v_pos) |-> i - 1]
IsAmbulance(vehicle_id) == vehicle_id = AmbulanceVehicle

\* calculate_distance, squared: the order of the distances and their comparison
\* with the range are those of math.hypot on these coordinates.
Distance2(pos1, pos2) ==
  (pos1[1] - pos2[1]) * (pos1[1] - pos2[1]) + (pos1[2] - pos2[2]) * (pos1[2] - pos2[2])

\* sorted(..., key=distance): a stable sort of records with a field distance.
RECURSIVE SortByDistance(_)
SortByDistance(items) ==
  IF items = <<>> THEN <<>>
  ELSE LET i == CHOOSE k \in 1 .. Len(items) :
                  /\ \A j \in 1 .. Len(items) : items[k].distance <= items[j].distance
                  /\ \A j \in 1 .. (k - 1) : items[j].distance # items[k].distance
       IN  <<items[i]>> \o SortByDistance(SubSeq(items, 1, i - 1) \o SubSeq(items, i + 1, Len(items)))

Ids(items) == [i \in 1 .. Len(items) |-> items[i].id]

find_edge_nodes_in_range(position) ==
  LET nodes == EDGE_NODE_POSITIONS(variant)
      all == [i \in 1 .. Len(nodes) |->
                [id |-> nodes[i].id, distance |-> Distance2(position, nodes[i].position)]]
      near(n) == n.distance <= V2V_COMMUNICATION_RANGE * V2V_COMMUNICATION_RANGE
  IN  Ids(SortByDistance(SelectSeq(all, near)))

\* find_vehicles_in_range: Review-2 leaves the ambulances out.
find_vehicles_in_range(source_position, exclude_vehicle) ==
  LET all == [i \in 1 .. Len(V2VVehicles) |->
                [id |-> V2VVehicles[i],
                 distance |-> Distance2(source_position, PointXY(v2v_pos[V2VVehicles[i]]))]]
      near(n) == /\ n.id # exclude_vehicle
                 /\ ~(variant = "review2" /\ IsAmbulance(n.id))
                 /\ n.distance <= V2V_COMMUNICATION_RANGE * V2V_COMMUNICATION_RANGE
  IN  Ids(SortByDistance(SelectSeq(all, near)))

V2VMessage(message_id, source_id, payload) ==
  [message_id |-> message_id, source_id |-> source_id, payload |-> payload,
   hop_count |-> 0, propagation_path |-> <<source_id>>, reached_edge_node |-> FALSE]

increment_hop(message, next_node) ==
  [message EXCEPT !.hop_count = @ + 1, !.propagation_path = Append(@, next_node)]

\* The instance made for the next hop: a new message of the relay with
\* hop_count = message.hop_count + 1 and a copy of the path, then increment_hop.
NextMessage(message, vehicle_id) ==
  increment_hop([V2VMessage(message.message_id, vehicle_id, message.payload) EXCEPT
                   !.hop_count = message.hop_count + 1,
                   !.propagation_path = message.propagation_path],
                vehicle_id)

HopLimitReached(message) == message.hop_count >= MAX_HOP_COUNT

AlreadyReceived(vehicle_id, message) == vehicle_id \in Range(message.propagation_path)

\* "if success: propagation_successful = True; break".
StopAfter(r) == r.success

\* The state a relay works on, with the value the call returns.
Relays ==
  [message_cache |-> message_cache, message_history |-> message_history,
   hop_count_stats |-> hop_count_stats, accident_alerts_received |-> accident_alerts_received,
   stopped_vehicles |-> stopped_vehicles, success |-> FALSE]

\* An edge node takes the message: cache, alert record (Review-2), the flag
\* reached_edge_node of the instance (the object message_history holds),
\* statistics.
Accept(r, message, edge_id) ==
  LET h == message.hop_count
      n == IF h \in DOMAIN r.hop_count_stats THEN r.hop_count_stats[h] ELSE 0
      alert_info == [edge_id |-> edge_id, message_id |-> message.message_id,
                     vehicles_involved |-> message.payload.vehicles_involved,
                     hop_count |-> h, propagation_path |-> message.propagation_path]
  IN  [r EXCEPT !.message_cache[edge_id] = @ \cup {message.message_id},
                !.accident_alerts_received =
                   IF variant = "review2" THEN Append(@, alert_info) ELSE @,
                !.message_history[message.message_id] =
                   [i \in 1 .. Len(@) |->
                      IF @[i] = message THEN [@[i] EXCEPT !.reached_edge_node = TRUE]
                      ELSE @[i]],
                !.hop_count_stats = Put(@, h, n + 1),
                !.success = TRUE]

RECURSIVE propagate_v2v_message(_, _, _)
RECURSIVE RelayFrom(_, _, _, _, _)
RECURSIVE RelayNext(_, _, _, _, _)

propagate_v2v_message(r, message, current_vehicle_id) ==
  IF HopLimitReached(message) THEN [r EXCEPT !.success = FALSE]
  ELSE LET position == PointXY(v2v_pos[current_vehicle_id])
           fresh(edge_id) == message.message_id \notin r.message_cache[edge_id]
           takers == SelectSeq(find_edge_nodes_in_range(position), fresh)
       IN  IF takers # <<>> THEN Accept(r, message, Head(takers))
           ELSE RelayFrom(r, message, current_vehicle_id,
                          find_vehicles_in_range(position, current_vehicle_id), 1)

\* The loop over vehicles_in_range from its i-th element on.
RelayFrom(r, message, current_vehicle_id, vehicles_in_range, i) ==
  IF i > Len(vehicles_in_range) THEN [r EXCEPT !.success = FALSE]
  ELSE IF \/ AlreadyReceived(vehicles_in_range[i], message)
          \/ (variant = "root" /\ vehicles_in_range[i] \in r.stopped_vehicles)
       THEN RelayFrom(r, message, current_vehicle_id, vehicles_in_range, i + 1)
       ELSE LET next_message == NextMessage(message, vehicles_in_range[i])
                stored == [r EXCEPT !.message_history[message.message_id] =
                                       Append(@, next_message)]
            IN  RelayNext(propagate_v2v_message(stored, next_message, vehicles_in_range[i]),
                          message, current_vehicle_id, vehicles_in_range, i)

\* "if success: break", else the next vehicle in range.
RelayNext(r, message, current_vehicle_id, vehicles_in_range, i) ==
  IF StopAfter(r) THEN r
  ELSE RelayFrom(r, message, current_vehicle_id, vehicles_in_range, i + 1)

\* broadcast_emergency_alert: a message with a fresh id, from the first vehicle
\* of the pair.
broadcast_emergency_alert(r, message_id, source_vehicle_id, collision_pair) ==
  LET emergency_payload == [vehicles_involved |-> collision_pair]
      message == V2VMessage(message_id, source_vehicle_id, emergency_payload)
  IN  propagate_v2v_message([r EXCEPT !.message_history = Put(@, message_id, <<message>>)],
                            message, source_vehicle_id)

\* The loop's reaction to one collision.  In the root script the two vehicles
\* are in stopped_vehicles before the alert leaves.
Alert(collision_pair) ==
  \E stopped \in {IF variant = "root"
                  THEN stopped_vehicles \cup {collision_pair[1], collision_pair[2]}
                  ELSE stopped_vehicles} :
  \E r \in {broadcast_emergency_alert([Relays EXCEPT !.stopped_vehicles = stopped],
                                       alerts_sent + 1, collision_pair[1],
                                       collision_pair)} :
    /\ stopped_vehicles' = stopped
    /\ message_cache' = r.message_cache
    /\ message_history' = r.message_history
    /\ hop_count_stats' = r.hop_count_stats
    /\ accident_alerts_received' = r.accident_alerts_received
    /\ alerts_sent' = alerts_sent + 1
    /\ UNCHANGED <<variant, v2v_pos, simVars, ervVars, accVars, cenVars, callVars, extVars>>

\* detect_collisions and the alert for a new pair: two vehicles at one point,
\* in the root script neither of them stopped before.
Collision ==
  /\ alerts_sent < MaxAlerts
  /\ \E collision_pair \in Pairs :
       /\ v2v_pos[collision_pair[1]] = v2v_pos[collision_pair[2]]
       /\ variant = "root" =>
            collision_pair[1] \notin stopped_vehicles /\ collision_pair[2] \notin stopped_vehicles
       /\ Alert(collision_pair)

\* create_artificial_collision of the root script: any two vehicles, as long as
\* no collision has happened.
ArtificialCollision ==
  /\ variant = "root"
  /\ alerts_sent = 0
  /\ alerts_sent < MaxAlerts
  /\ \E collision_pair \in Pairs : Alert(collision_pair)

\* Either script, with the vehicles anywhere on the road.
InitV2V ==
  /\ InitSim /\ InitCen /\ InitCalls /\ InitPathsIdle /\ InitListenIdle /\ InitAntIdle
  /\ variant \in {"root", "review2"}
  /\ v2v_pos \in [0 .. NUM_INITIAL_VEHICLES -> Points]
  /\ InitRelay

NextV2V == Collision \/ ArtificialCollision

SpecV2V == InitV2V /\ [][NextV2V]_vars

\* ----------------------------------------------- properties of the relay
\* Every message instance made so far.
Instances ==
  UNION {Range(message_history[id]) : id \in DOMAIN message_history}

\* C7: whenever an edge node accepts a message, the message's hop_count is at
\* most MAX_HOP_COUNT, in the root script and in Review-2.
C7_AcceptedWithinLimit ==
  /\ \A h \in DOMAIN hop_count_stats : h <= MAX_HOP_COUNT
  /\ \A i \in 1 .. Len(accident_alerts_received) :
       accident_alerts_received[i].hop_count <= MAX_HOP_COUNT

\* An edge node has accepted a message that two vehicles had relayed.
C7_Witness ==
  \E h \in DOMAIN hop_count_stats :
    /\ h + 2 > MAX_HOP_COUNT
    /\ \E m \in Instances : m.hop_count = h /\ Len(m.propagation_path) >= 3

\* C8 (fails): every message instance has hop_count = len(propagation_path) - 1.
C8_HopCountIsPathLength ==
  \A m \in Instances : m.hop_count = Len(m.propagation_path) - 1

\* C9: the propagation_path of a message instance names no vehicle twice.
C9_NoVehicleTwice ==
  \A m \in Instances :
    \A i, j \in 1 .. Len(m.propagation_path) :
      i # j => m.propagation_path[i] # m.propagation_path[j]

\* A relay passed the message on although its sender was within range.
C9_Witness == \E m \in Instances : Len(m.propagation_path) >= 3

\* The edge nodes that hold a message id in their message_cache.
Holders(message_id) ==
  {edge_id \in DOMAIN message_cache : message_id \in message_cache[edge_id]}

\* C22: for every message id at most one edge node holds the id in its
\* message_cache, and no carrier is tried after the acceptance: the instance
\* an edge node accepted is the only accepted one and the last one made.
C22_FirstBranchWins ==
  \A id \in DOMAIN message_history :
    /\ Cardinality(Holders(id)) <= 1
    /\ \A i \in 1 .. Len(message_history[id]) :
         message_history[id][i].reached_edge_node => i = Len(message_history[id])
    /\ Holders(id) # {} =>
         message_history[id][Len(message_history[id])].reached_edge_node

\* A relayed message was accepted while a vehicle that had not carried it was
\* within range of the sender and could have been tried next.
C22_Witness ==
  \E id \in DOMAIN message_history :
    /\ Holders(id) # {}
    /\ Len(message_history[id]) >= 2
    /\ \E v \in Range(find_vehicles_in_range(
                      PointXY(v2v_pos[message_history[id][1].source_id]),
                      message_history[id][1].source_id)) :
         /\ v \notin stopped_vehicles
         /\ \A i \in 1 .. Len(message_history[id]) :
              v \notin Range(message_history[id][i].propagation_path)

\* C23 (fails): no carrier a message is passed to, at any hop, is one of the
\* vehicles of the collision the message reports.
C23_CarrierNotInvolved ==
  \A m \in Instances :
    \A i \in 2 .. Len(m.propagation_path) :
      /\ m.propagation_path[i] # m.payload.vehicles_involved[1]
      /\ m.propagation_path[i] # m.payload.vehicles_involved[2]

\* ------------------------------------------------- the relay along a road
\* The vehicles of the start, the ambulance and the vehicles spawned later,
\* strung along the road: vehicle v at the point v + 1 or v + 2, so that the
\* relay can pass from each to the next one or two, and only the first
\* vehicle can be in range of an edge node.
InitChain ==
  /\ InitSim /\ InitCen /\ InitCalls /\ InitPathsIdle /\ InitListenIdle /\ InitAntIdle
  /\ variant \in {"root", "review2"}
  /\ v2v_pos \in {[v \in 0 .. (NUM_INITIAL_VEHICLES + MaxSpawned) |-> v + 1 + ahead[v]] :
                    ahead \in [0 .. (NUM_INITIAL_VEHICLES + MaxSpawned) -> {0, 1}]}
  /\ InitRelay

SpecChain == InitChain /\ [][NextV2V]_vars

\* C36: propagate_v2v_message comes to an end for every alert (the relay of an
\* alert is one step of the run), and no message instance is handed to a call
\* nested deeper than MAX_HOP_COUNT + 1: the call for an instance is nested
\* as deep as its propagation_path is long.
C36_DepthBounded ==
  \A m \in Instances : Len(m.propagation_path) <= MAX_HOP_COUNT + 1

\* A call returned at the hop limit although a vehicle that had not carried
\* the message was in range of its carrier.
C36_Witness ==
  \E m \in Instances :
    /\ m.hop_count >= MAX_HOP_COUNT
    /\ \E v \in DOMAIN v2v_pos \ Range(m.propagation_path) :
         /\ v \notin stopped_vehicles
         /\ Distance2(PointXY(v2v_pos[v]), PointXY(v2v_pos[m.source_id]))
              <= V2V_COMMUNICATION_RANGE * V2V_COMMUNICATION_RANGE

\* ------------------------------------------------ properties of the loop
\* C1 (fails): at the end of every tick no two ERVs hold the same incident id
\* in erv_assignments.
C1_NoSharedIncident ==
  pc = "step" =>
    \A e1, e2 \in ERVs :
      (e1 # e2 /\ erv_assignments[e1] # NoId) => erv_assignments[e1] # erv_assignments[e2]

\* The collisions the loop has handled so far.
Handled == reported_collisions \ {new_collisions[i].pair : i \in 1 .. Len(new_collisions)}

\* C2 (fails): every handled collision has its own entry in the registry: the
\* entries are as many as the collisions, and each collision's vehicles are
\* the vehicles_involved of one of them.
C2_OwnRegistryEntry ==
  /\ Cardinality(DOMAIN cen_accidents) = Cardinality(Handled)
  /\ \A p \in Handled : \E id \in DOMAIN cen_accidents : cen_accidents[id].vehicles_involved = p

\* C3: the status of an ERV changes only idle -> assigned (while a collision
\* is handled), assigned -> en_route, en_route -> arrived and arrived -> idle
\* (in manage_erv_operations).
C3_Lifecycle ==
  [][\A e \in ERVs :
       erv_status'[e] # erv_status[e] =>
         \/ erv_status[e] = "idle" /\ erv_status'[e] = "assigned" /\ pc = "collisions"
         \/ erv_status[e] = "assigned" /\ erv_status'[e] = "en_route" /\ pc = "manage"
         \/ erv_status[e] = "en_route" /\ erv_status'[e] = "arrived" /\ pc = "manage"
         \/ erv_status[e] = "arrived" /\ erv_status'[e] = "idle" /\ pc = "manage"]_vars

\* An ERV is idle again after it has served an incident to the end.
C3_Witness ==
  \E id \in cleared_accidents :
    /\ id \in DOMAIN accident_status
    /\ accident_status[id].cleared
    /\ erv_status[accident_status[id].erv] = "idle"
    /\ erv_assignments[accident_status[id].erv] = NoId

\* C4: an ERV is given an incident only while it is idle, and what it was
\* given (incident id, destination, target segment, stored route) stays as it
\* is until the ERV is idle again.
C4_AssignmentKept ==
  [][\A e \in ERVs :
       /\ erv_status[e] # "idle" /\ erv_status'[e] # "idle" =>
            /\ erv_assignments'[e] = erv_assignments[e]
            /\ erv_destinations'[e] = erv_destinations[e]
            /\ erv_target_edge'[e] = erv_target_edge[e]
            /\ erv_optimal_route'[e] = erv_optimal_route[e]
       /\ erv_assignments'[e] \notin {erv_assignments[e], NoId} => erv_status[e] = "idle"]_vars

\* The GA picked a busy ERV for a later incident, and the ERV kept its own.
C4_Witness ==
  /\ best_ambulance \in ERVs
  /\ erv_status[best_ambulance] # "idle"
  /\ erv_assignments[best_ambulance] # NoId
  /\ erv_assignments[best_ambulance] < total_accidents
  /\ total_accidents \in DOMAIN cen_accidents

\* C5: when the GA's pick is not idle, the incident goes to the first idle ERV
\* in the order ambulance0, ambulance1, ambulance2 and no other ERV changes;
\* when no ERV is idle, no ERV's status or assignment changes in that step.
C5_FirstIdleFallback ==
  [][(pc = "collisions" /\ best_ambulance' \in ERVs /\ erv_status[best_ambulance'] # "idle") =>
       IF \E e \in ERVs : erv_status[e] = "idle"
       THEN \E i \in 1 .. Len(ambulance_keys) :
              /\ erv_status[ambulance_keys[i]] = "idle"
              /\ \A j \in 1 .. (i - 1) : erv_status[ambulance_keys[j]] # "idle"
              /\ erv_status'[ambulance_keys[i]] = "assigned"
              /\ erv_assignments'[ambulance_keys[i]] = total_accidents
              /\ \A o \in ERVs \ {ambulance_keys[i]} :
                   /\ erv_status'[o] = erv_status[o]
                   /\ erv_assignments'[o] = erv_assignments[o]
       ELSE UNCHANGED <<ervVars, accVars>>]_vars

\* The latest pick was busy with another incident and the incident went to a
\* different ERV.
C5_Witness ==
  /\ pc = "manage"
  /\ best_ambulance \in ERVs
  /\ erv_status[best_ambulance] # "idle"
  /\ erv_assignments[best_ambulance] # total_accidents
  /\ total_accidents \in DOMAIN accident_status
  /\ accident_status[total_accidents].erv # best_ambulance
  /\ erv_assignments[accident_status[total_accidents].erv] = total_accidents

\* C38: between two ticks, an idle ERV has no incident, destination, target
\* segment, stored route or arrival time, and an ERV that is assigned,
\* en_route or arrived has an incident id that is a key of accident_status.
C38_ErvStateConsistent ==
  pc = "step" =>
    \A e \in ERVs :
      /\ erv_status[e] = "idle" =>
           /\ erv_assignments[e] = NoId
           /\ erv_destinations[e] = NoLoc
           /\ erv_target_edge[e] = NoEdge
           /\ erv_optimal_route[e] = NoRoute
           /\ erv_arrival_times[e] = NoTime
      /\ erv_status[e] \in {"assigned", "en_route", "arrived"} =>
           /\ erv_assignments[e] # NoId
           /\ erv_assignments[e] \in DOMAIN accident_status

\* Between two ticks, one ERV is idle again after it has served an incident
\* to the end and another is on its way or has arrived.
C38_Witness ==
  /\ pc = "step"
  /\ \E id \in DOMAIN accident_status :
       /\ accident_status[id].cleared
       /\ erv_status[accident_status[id].erv] = "idle"
  /\ \E e \in ERVs : erv_status[e] \in {"en_route", "arrived"}

\* C6 (fails): an incident that found no idle ERV is taken up again: when the
\* collisions of a tick have been handled and an ERV is still idle, no
\* registered incident is without an ERV assignment.
C6_PendingTakenUp ==
  (pc = "manage" /\ \E e \in ERVs : erv_status[e] = "idle") =>
    \A id \in DOMAIN cen_accidents : id \in DOMAIN accident_status

\* ------------------------------------------- calls of dijkstra_shortest_path
\* A static network: any selection of the connections of the stretch, any
\* congestion, and a router that does or does not find what lane 0 hides.
CongestionLevels == {5 * k : k \in 0 .. MaxLevel}
CallStarts == {<<"A", "B">>, <<"B", "E">>}
CallEnds(start_edge) == {<<"F", "I">>, start_edge}

DijkstraCall ==
  /\ \E start_edge \in CallStarts :
     \E end_edge \in CallEnds(start_edge) :
     \E r \in {dijkstra_shortest_path(route_cache, start_edge, end_edge)} :
       /\ route_cache' = r.cache
       /\ returned' = [fn |-> "dijkstra", start |-> start_edge, end |-> end_edge,
                       path |-> r.path, cost |-> r.cost, iterations |-> r.iterations]
  /\ UNCHANGED <<links, congestion, sumo_connects>>
  /\ UNCHANGED <<simVars, ervVars, accVars, cenVars, callVars, v2vVars, gaVars, listenVars, antVars>>

InitDijkstra ==
  /\ InitSim /\ InitCen /\ InitCalls /\ InitV2VIdle /\ InitListenIdle /\ InitAntIdle
  /\ links \in {LinksOf(L) : L \in SUBSET GridLinks}
  /\ congestion \in [GridSegments -> CongestionLevels]
  /\ sumo_connects \in BOOLEAN
  /\ route_cache = EmptyDict
  /\ returned = NoCall
  /\ selection = NoCall

NextDijkstra == DijkstraCall

SpecDijkstra == InitDijkstra /\ [][NextDijkstra]_vars

\* The simple paths that continue `path` to end_edge along the connections.
RECURSIVE PathsFrom(_, _)
PathsFrom(path, end_edge) ==
  IF path[Len(path)] = end_edge THEN {path}
  ELSE UNION {PathsFrom(Append(path, n), end_edge) :
                n \in get_edge_neighbors(path[Len(path)]) \ Range(path)}

\* C14: when end is reachable from start, dijkstra_shortest_path returns a
\* path from start to end whose every segment is a neighbour of the one before,
\* its cost is the sum of get_edge_weight over the segments entered, and no
\* simple path from start to end costs less.
C14_ShortestPath ==
  (returned.fn = "dijkstra" /\ PathsFrom(<<returned.start>>, returned.end) # {}) =>
    /\ returned.path # NoPath
    /\ Head(returned.path) = returned.start
    /\ returned.path[Len(returned.path)] = returned.end
    /\ \A i \in 2 .. Len(returned.path) :
         returned.path[i] \in get_edge_neighbors(returned.path[i - 1])
    /\ returned.cost = SumWeights(Tail(returned.path))
    /\ \A p \in PathsFrom(<<returned.start>>, returned.end) :
         SumWeights(Tail(p)) >= returned.cost

\* A search that had two ways of different cost to choose from.
C14_Witness ==
  /\ returned.fn = "dijkstra"
  /\ returned.iterations > 0
  /\ \E p \in PathsFrom(<<returned.start>>, returned.end) :
       SumWeights(Tail(p)) > returned.cost

\* C15: dijkstra_shortest_path(x, x) returns ([x], 0) without a search (no
\* iteration, no cache entry), whatever the cache holds.
C15_SameEdgeNoSearch ==
  [][(returned'.fn = "dijkstra" /\ returned'.start = returned'.end) =>
       /\ returned'.path = <<returned'.start>>
       /\ returned'.cost = 0
       /\ returned'.iterations = 0
       /\ route_cache' = route_cache]_vars

\* The call was made with routes in the cache.
C15_Witness ==
  /\ returned.fn = "dijkstra"
  /\ returned.start = returned.end
  /\ route_cache # EmptyDict

\* C16: two calls in a row with the same start and end, the network unchanged
\* and the cache not cleared in between, return the same path and cost.
C16_RepeatedCall ==
  [][(/\ returned.fn = "dijkstra"
      /\ returned'.fn = "dijkstra"
      /\ returned'.start = returned.start
      /\ returned'.end = returned.end) =>
       returned'.path = returned.path /\ returned'.cost = returned.cost]_vars

\* The latest call was answered from the cache.
C16_Witness ==
  /\ returned.fn = "dijkstra"
  /\ returned.iterations = 0
  /\ <<returned.start, returned.end>> \in DOMAIN route_cache

\* C35: a call whose search ends without reaching end returns the route of
\* traci.simulation.findRoute when there is one, and (None, infinity) and an
\* unchanged route_cache when there is none; the next call for the same
\* start and end runs the search again.
C35_FallbackOrNotFound ==
  [][/\ (/\ returned'.fn = "dijkstra"
         /\ returned'.start # returned'.end
         /\ <<returned'.start, returned'.end>> \notin DOMAIN route_cache
         /\ PathsFrom(<<returned'.start>>, returned'.end) = {})
        => IF findRoute(returned'.start, returned'.end) # NoPath
           THEN returned'.path = findRoute(returned'.start, returned'.end)
           ELSE /\ returned'.path = NoPath
                /\ returned'.cost = Inf
                /\ route_cache' = route_cache
     /\ (/\ returned.fn = "dijkstra"
         /\ returned.path = NoPath
         /\ returned'.fn = "dijkstra"
         /\ returned'.start = returned.start
         /\ returned'.end = returned.end)
        => returned'.iterations > 0 /\ returned'.path = NoPath]_vars

\* The latest call ran a search of more than one expansion, found nothing and
\* left its start and end out of a cache that holds other routes.
C35_Witness ==
  /\ returned.fn = "dijkstra"
  /\ returned.path = NoPath
  /\ returned.iterations > 1
  /\ route_cache # EmptyDict
  /\ <<returned.start, returned.end>> \notin DOMAIN route_cache

\* C39 (fails): the cost returned with a path is the cost the search gives
\* that path, the sum of get_edge_weight over the segments entered after
\* start, whether the path comes from the search or from findRoute.
C39_OneCostForAPath ==
  (returned.fn = "dijkstra" /\ returned.path # NoPath) =>
    returned.cost = SumWeights(Tail(returned.path))

\* --------------------------------------------- calls of select_best_ambulance
\* The incident segments: one the stretch leads to, one that follows ambulance0's
\* home segment, that home segment, one that leaves the same junction as it,
\* and None.
AccidentEdges == {<<"F", "I">>, <<"B", "C">>, <<"A", "B">>, <<"A", "D">>, NoSegment}
\* Straight-line distances of the ERVs to the place of the incident.
StraightDists ==
  {[ambulance0 |-> 100, ambulance1 |-> 100, ambulance2 |-> 100],
   [ambulance0 |-> 400, ambulance1 |-> 100, ambulance2 |-> 250]}
\* amb_positions: an ERV whose getPosition fails is left out.
PositionMaps == {ERVs, ERVs \ {"ambulance2"}}
\* The segments whose congestion reading changes between two ticks.
VaryingSegments == {<<"F", "I">>}

\* select_best_ambulance(accident_x, accident_y, positions, accident_edge).
\* The record of the call keeps what fitness returned for the individuals it
\* was asked about, the fitness of every ERV under the same inputs, and
\* whether the cache held, when the call began, a route of this cycle at
\* another cost.
SelectBestAmbulance ==
  /\ \E accident_edge \in AccidentEdges, straight_dist \in StraightDists,
        positions \in PositionMaps :
     \E cache \in {ClearedCache(route_cache)} :
     \E evaluations \in {[e \in ERVs |->
                            fitness(cache, e, straight_dist[e], positions, accident_edge)]} :
     \E scores \in {[e \in ERVs |-> evaluations[e].score]} :
     \E outcome \in
        UNION {{[scored |-> run.scored, best |-> b] : b \in Fittest(run.population, scores)} :
                 run \in Evolve({[population |-> members, scored |-> members] :
                                   members \in {m \in SUBSET ERVs :
                                                  m # {} /\ Cardinality(m) <= POP_SIZE}},
                                scores, 0)} :
     \E best \in {outcome.best} :
     \E final \in {IF accident_edge # NoSegment /\ getRoadID[best][1] # ":"
                   THEN dijkstra_shortest_path(CacheAfter(evaluations, outcome.scored),
                                               getRoadID[best], accident_edge)
                   ELSE [path |-> NoPath, cost |-> Inf,
                         cache |-> CacheAfter(evaluations, outcome.scored)]} :
       /\ route_cache' = final.cache
       /\ selection' =
            [fn |-> "select",
             accident_edge |-> accident_edge,
             positions |-> positions,
             congestion |-> congestion,
             outdated |-> \E e \in outcome.scored :
                            /\ evaluations[e].routed
                            /\ <<getRoadID[e], accident_edge>> \in DOMAIN route_cache
                            /\ route_cache[<<getRoadID[e], accident_edge>>].cost
                               # dijkstra_shortest_path(EmptyDict, getRoadID[e],
                                                        accident_edge).cost,
             scored |-> [e \in outcome.scored |->
                           [score |-> evaluations[e].score, routed |-> evaluations[e].routed,
                            route_cost |-> evaluations[e].route_cost,
                            bonus |-> evaluations[e].bonus]],
             scores |-> scores,
             best |-> best,
             optimal_route |-> final.path,
             route_cost |-> final.cost]
  /\ UNCHANGED <<links, congestion, sumo_connects, returned>>
  /\ UNCHANGED <<simVars, ervVars, accVars, cenVars, callVars, v2vVars, listenVars, antVars>>

\* traci.simulationStep() between two selections: a reading changes.
CongestionChange ==
  /\ \E e \in VaryingSegments, level \in CongestionLevels :
       /\ level # congestion[e]
       /\ congestion' = [congestion EXCEPT ![e] = level]
  /\ UNCHANGED <<links, sumo_connects, route_cache, returned, selection>>
  /\ UNCHANGED <<simVars, ervVars, accVars, cenVars, callVars, v2vVars, listenVars, antVars>>

InitGA ==
  /\ InitSim /\ InitCen /\ InitCalls /\ InitV2VIdle /\ InitListenIdle /\ InitAntIdle
  /\ InitPathsIdle

NextGA == SelectBestAmbulance \/ CongestionChange

SpecGA == InitGA /\ [][NextGA]_vars

\* C17: select_best_ambulance empties route_cache before it scores anything:
\* every path cost a selection cycle returns (to fitness, and with the route of
\* the pick) is the cost under the weights of that cycle, whatever an earlier
\* cycle has memoized.
C17_CostsAreFresh ==
  (selection.fn = "select" /\ selection.congestion = congestion) =>
    /\ \A e \in DOMAIN selection.scored :
         selection.scored[e].routed =>
           selection.scored[e].route_cost
           = dijkstra_shortest_path(EmptyDict, getRoadID[e], selection.accident_edge).cost
    /\ selection.optimal_route # NoPath =>
         selection.route_cost
         = dijkstra_shortest_path(EmptyDict, getRoadID[selection.best],
                                  selection.accident_edge).cost

\* The cycle began with a route in the cache that it needed and whose cost
\* the weights had changed since, and it has scored an ERV by such a route.
C17_Witness ==
  /\ selection.fn = "select"
  /\ selection.congestion = congestion
  /\ selection.outdated
  /\ \E e \in DOMAIN selection.scored : selection.scored[e].routed

\* C18 (fails): the ERV select_best_ambulance returns has a fitness at least
\* that of every ERV that is idle and in the position map, whatever the random
\* draws were.
C18_BestIsFittest ==
  selection.fn = "select" =>
    \A e \in ERVs :
      (erv_status[e] = "idle" /\ e \in selection.positions) =>
        selection.scores[selection.best] >= selection.scores[e]

\* The junctions two different segments have in common.
SharedNodes(edge1, edge2) == {edge1[1], edge1[2]} \cap {edge2[1], edge2[2]}

\* C20 (fails): the edge bonus of fitness is 1.5 when the ERV's home segment is
\* the incident segment, 0.8 when the two differ and have a junction in common,
\* in whatever way, and 0 otherwise.
C20_EdgeBonus ==
  selection.fn = "select" =>
    \A e \in DOMAIN selection.scored :
      e \in selection.positions =>
        selection.scored[e].bonus =
          IF selection.accident_edge = NoSegment THEN 0
          ELSE IF ambulance_anchor_edges[e] = selection.accident_edge THEN 1500
          ELSE IF SharedNodes(ambulance_anchor_edges[e], selection.accident_edge) # {}
               THEN 800
               ELSE 0

\* C21 (fails): an ERV that is not in the position map is never the one
\* select_best_ambulance returns when some ERV is in the map.
C21_AbsentNeverBest ==
  (selection.fn = "select" /\ selection.positions # {}) =>
    selection.best \in selection.positions

\* --------------------------------------------- calls of find_path_bfs_manual
\* The network of the calls: the grid and the segment F_C, which E_F leads to
\* and which leads to C_F by the U-turn at C, so that one segment can be
\* reached over paths of different lengths.
BfsSegments == GridSegments \cup {<<"F", "C">>}
BfsLinks ==
  GridLinks \cup {<<<<"E", "F">>, <<"F", "C">>>>, <<<<"F", "C">>, <<"C", "F">>>>}

\* One call in a run: find_path_bfs_manual keeps nothing between two calls.
BfsCall ==
  /\ returned = NoCall
  /\ \E start_edge \in BfsSegments, end_edge \in BfsSegments, blocked_edge \in BfsSegments :
       returned' = [fn |-> "bfs", start |-> start_edge, end |-> end_edge,
                    blocked |-> blocked_edge,
                    path |-> find_path_bfs_manual(start_edge, end_edge, blocked_edge)]
  /\ UNCHANGED <<links, congestion, sumo_connects, route_cache>>
  /\ UNCHANGED <<simVars, ervVars, accVars, cenVars, callVars, v2vVars, gaVars, listenVars, antVars>>

InitBFS ==
  /\ InitSim /\ InitCen /\ InitCalls /\ InitV2VIdle /\ InitListenIdle /\ InitAntIdle
  /\ links \in {[e \in BfsSegments |-> {n \in BfsSegments : <<e, n>> \in L}] :
                  L \in SUBSET BfsLinks}
  /\ congestion = [e \in GridSegments |-> 0]
  /\ sumo_connects = FALSE
  /\ route_cache = EmptyDict
  /\ returned = NoCall
  /\ selection = NoCall

NextBFS == BfsCall

SpecBFS == InitBFS /\ [][NextBFS]_vars

\* The paths from the end of `path` to end_edge along get_outgoing_edges that
\* pass no segment twice and do not enter blocked_edge.
RECURSIVE DetoursFrom(_, _, _)
DetoursFrom(path, end_edge, blocked_edge) ==
  IF path[Len(path)] = end_edge THEN {path}
  ELSE UNION {DetoursFrom(Append(path, n), end_edge, blocked_edge) :
                n \in Range(get_outgoing_edges(path[Len(path)])) \ (Range(path) \cup {blocked_edge})}

\* C19 (fails): a path find_path_bfs_manual returns never contains the blocked
\* segment, start == blocked and start == end == blocked included, and the
\* result is None when no path from start to end avoids the blocked segment.
C19_DetourAvoidsBlocked ==
  returned.fn = "bfs" =>
    /\ returned.path # NoPath => returned.blocked \notin Range(returned.path)
    /\ (\/ returned.start = returned.blocked
        \/ DetoursFrom(<<returned.start>>, returned.end, returned.blocked) = {}) =>
         returned.path = NoPath

\* C32: a path find_path_bfs_manual returns for start # end starts at start,
\* ends at end, goes from each segment to one of its get_outgoing_edges,
\* passes no segment twice, and no path from start to end that avoids the
\* blocked segment has fewer segments.
C32_BfsShortest ==
  (returned.fn = "bfs" /\ returned.start # returned.end /\ returned.path # NoPath) =>
    LET path == returned.path
    IN  /\ path[1] = returned.start
        /\ path[Len(path)] = returned.end
        /\ \A k \in 1 .. (Len(path) - 1) :
             path[k + 1] \in Range(get_outgoing_edges(path[k]))
        /\ \A j, k \in 1 .. Len(path) : path[j] = path[k] => j = k
        /\ \A other \in DetoursFrom(<<returned.start>>, returned.end, returned.blocked) :
             Len(other) >= Len(path)

\* A path of three segments was returned where a path of five avoids the
\* blocked segment too.
C32_Witness ==
  /\ returned.fn = "bfs" /\ returned.start # returned.end
  /\ returned.path # NoPath /\ Len(returned.path) = 3
  /\ \E other \in DetoursFrom(<<returned.start>>, returned.end, returned.blocked) :
       Len(other) = 5

\* ------------------------------------ the vehicles and the registry, per tick
\* The incidents the tick can register: the next id, for either pair of
\* vehicles, on a segment of the spawn route or on one of its detour.
ListenEdges == {<<"B", "C">>, <<"E", "F">>, <<"F", "I">>}
Registrations ==
  {[register |-> FALSE]} \cup
  {[register |-> TRUE, vehicles_involved |-> p, edge |-> e] : p \in CenPairs, e \in ListenEdges}

\* clear_accident, for the incidents whose ERV arrives in this tick.
RECURSIVE MarkAll(_, _)
MarkAll(c, ids) ==
  IF ids = <<>> THEN c ELSE MarkAll(mark_accident_cleared(c, Head(ids)), Tail(ids))

\* One tick of the simulation loop as the registry and the vehicles see it: a
\* collision is registered or not, manage_erv_operations clears incidents or
\* not, every vehicle runs listen_and_reroute, and cen.broadcast runs.
ListenTick ==
  /\ \E now \in Times, in_range \in InRangeSets, reg \in Registrations :
     \E arrived \in SUBSET {id \in DOMAIN cen_accidents : id \notin cleared_accidents} :
     \E c \in {MarkAll(<<IF reg.register
                         THEN register(cen_accidents, Cardinality(DOMAIN cen_accidents) + 1, 1,
                                       now, reg.vehicles_involved, reg.edge)
                         ELSE cen_accidents,
                         cleared_accidents>>,
                       Rising(arrived))} :
     \E listened \in {[v \in Vehicles |->
                         listen_and_reroute(VehicleStates[v], v, c[1], v \in in_range)]} :
     \E b \in {broadcast(c, now, in_range)} :
     \E vehicles \in {[v \in Vehicles |->
                         IF \E id \in DOMAIN c[1] : <<id, v>> \in b.notified
                         THEN listen_and_reroute(listened[v], v, c[1], TRUE)
                         ELSE listened[v]]} :
       /\ reg.register => Cardinality(DOMAIN cen_accidents) < MaxIds
       /\ cen_accidents' = b.accidents
       /\ cleared_accidents' = c[2]
       /\ sim_time' = now
       /\ is_in_accident' = [v \in Vehicles |-> vehicles[v].is_in_accident]
       /\ accidents_received' = [v \in Vehicles |-> vehicles[v].accidents_received]
       /\ veh_route' = [v \in Vehicles |-> vehicles[v].route]
       /\ rerouted_for' = [v \in Vehicles |-> vehicles[v].rerouted_for]
       /\ veh_speed' = [v \in Vehicles |-> vehicles[v].speed]
       /\ set_route_calls' = [v \in Vehicles |-> vehicles[v].set_route_calls]
       /\ bcast_updated' = b.updated
       /\ bcast_notified' = b.notified
  /\ last_call' = "broadcast"
  /\ UNCHANGED <<mark_called, mark_registered>>
  /\ UNCHANGED <<pc, new_collisions, veh_pos, reported_collisions, total_accidents,
                 best_ambulance, ervVars, accVars, v2vVars, pathVars, gaVars, antVars>>

InitListen ==
  /\ InitSim /\ InitCen /\ InitCalls /\ InitV2VIdle /\ InitListenIdle /\ InitAntIdle
  /\ InitPathsIdle

NextListen == ListenTick

SpecListen == InitListen /\ [][NextListen]_vars

\* C11 (fails): once an incident is marked cleared, no vehicle records it in
\* accidents_received and no vehicle's route is changed because of it, be it in
\* the listen_and_reroute call of the tick or in one that cen.broadcast makes
\* for another incident.
C11_ClearedIsNotHeard ==
  [][\A id \in cleared_accidents' : \A v \in Vehicles :
       /\ id \in accidents_received'[v] => id \in accidents_received[v]
       /\ id \in rerouted_for'[v] => id \in rerouted_for[v]]_vars

\* C31: a vehicle that is in vehicles_involved of an incident of the registry
\* keeps its route through every listen_and_reroute call of the tick, whatever
\* the incident the call is about, and cen.broadcast calls listen_and_reroute
\* for no vehicle of the incident it is broadcasting.
C31_InvolvedKeepsRoute ==
  [][/\ \A v \in Vehicles :
          (\E id \in DOMAIN cen_accidents' :
              v \in Range(cen_accidents'[id].vehicles_involved))
          => /\ veh_route'[v] = veh_route[v]
             /\ rerouted_for'[v] = rerouted_for[v]
     /\ \A n \in bcast_notified' :
          n[2] \notin Range(cen_accidents'[n[1]].vehicles_involved)]_vars

\* A vehicle of one incident, in range of the node, while another incident is
\* on its route and is being broadcast to a vehicle that is rerouted for it.
C31_Witness ==
  \E v \in Vehicles, id, other \in DOMAIN cen_accidents :
    /\ v \in Range(cen_accidents[id].vehicles_involved)
    /\ v \notin Range(cen_accidents[other].vehicles_involved)
    /\ cen_accidents[other].edge \in Range(veh_route[v])
    /\ other \in bcast_updated
    /\ \E w \in Vehicles : <<other, w>> \in bcast_notified /\ other \in rerouted_for[w]
    /\ is_in_accident[v]

\* C40: listen_and_reroute calls setRoute at most once for a vehicle and an
\* incident in the whole run, and the route of the call does not contain
\* the segment of that incident.
C40_OneRerouteEach ==
  \A v \in Vehicles :
    /\ \A i, j \in 1 .. Len(set_route_calls[v]) :
         set_route_calls[v][i].acc_id = set_route_calls[v][j].acc_id => i = j
    /\ \A i \in 1 .. Len(set_route_calls[v]) :
         set_route_calls[v][i].accident_edge \notin Range(set_route_calls[v][i].new_route)

\* A vehicle was rerouted for one incident, then for a second one onto a
\* route through the segment of the first, and heard of the first again.
C40_Witness ==
  \E v \in Vehicles :
    /\ Len(set_route_calls[v]) = 2
    /\ set_route_calls[v][1].accident_edge \in Range(set_route_calls[v][2].new_route)
    /\ set_route_calls[v][1].acc_id \in bcast_updated
    /\ <<set_route_calls[v][1].acc_id, v>> \in bcast_notified

\* C26 (fails): a vehicle that hears of an incident on a segment of its
\* remaining route, and for which find_path_bfs_manual finds no detour, has
\* speed 0 when listen_and_reroute returns.
C26_NoDetourStops ==
  [][\A v \in Vehicles :
       \A id \in accidents_received'[v] \ accidents_received[v] :
         (/\ v \notin Range(cen_accidents'[id].vehicles_involved)
          /\ cen_accidents'[id].edge # NoSegment
          /\ cen_accidents'[id].edge \in Range(RemainingRoute(veh_route[v], VehicleRoad))
          /\ find_path_bfs_manual(VehicleRoad, veh_route[v][Len(veh_route[v])],
                                  cen_accidents'[id].edge) = NoPath)
         => veh_speed'[v] = 0]_vars

\* ------------------------------------------------- calls of get_edge_weight
\* The lengths and the congestion readings of the calls: multiples of 10 m,
\* and 0 .. 10.
Lengths == {10 * k : k \in 0 .. MaxLengthTens} \cup {Failed}
Readings == (0 .. 10) \cup {Failed}

WeightCall ==
  /\ \E edge_length \in Lengths, reading \in Readings :
       returned' = [fn |-> "weight", edge_length |-> edge_length, reading |-> reading,
                    weight |-> edge_weight(edge_length, reading)]
  /\ UNCHANGED <<links, congestion, sumo_connects, route_cache>>
  /\ UNCHANGED <<simVars, ervVars, accVars, cenVars, callVars, v2vVars, gaVars, listenVars, antVars>>

SpecWeight == Init /\ [][WeightCall]_vars

\* C28 (fails): get_edge_weight returns a value greater than 0 for every
\* length and every congestion reading, a length of 0 and a failed query
\* included.
C28_WeightPositive == returned.fn = "weight" => returned.weight > 0

\* ------------------------------------------------ calls of the ant search
\* The segments an accident has blocked before the searches.
BlockableSegments == {<<"B", "C">>, <<"B", "E">>, <<"F", "I">>}

\* The network of the searches: the grid, the segment F_C and the U-turn at F
\* that leads from C_F back to it.
AntLinks == BfsLinks \cup {<<<<"C", "F">>, <<"F", "C">>>>}

AntSearch ==
  /\ searches < MaxSearches
  /\ \E start \in CallStarts :
     \E end \in CallEnds(start) \cup {<<"C", "F">>} :
     \E found \in get_path_from_ants(pheromone, blocked_edges, start, end) :
       /\ pheromone' = found.pheromone
       /\ returned' = [fn |-> "ants", start |-> start, end |-> end,
                       blocked |-> blocked_edges,
                       trials |-> IF start = end THEN {}
                                  ELSE AntTrial(blocked_edges, <<start>>, start, {start}, 0, end),
                       path |-> found.path, score |-> found.score]
  /\ searches' = searches + 1
  /\ UNCHANGED <<blocked_edges, links, congestion, sumo_connects, route_cache>>
  /\ UNCHANGED <<simVars, ervVars, accVars, cenVars, callVars, v2vVars, gaVars, listenVars>>

\* clear_blocked_edges()
ClearBlockedEdges ==
  /\ blocked_edges # {}
  /\ blocked_edges' = {}
  /\ UNCHANGED <<pheromone, searches, pathVars>>
  /\ UNCHANGED <<simVars, ervVars, accVars, cenVars, callVars, v2vVars, gaVars, listenVars>>

InitAnt ==
  /\ InitSim /\ InitCen /\ InitCalls /\ InitV2VIdle /\ InitListenIdle
  /\ links = [e \in BfsSegments |-> {n \in BfsSegments : <<e, n>> \in AntLinks}]
  /\ congestion \in [BfsSegments -> {0, 1}]
  /\ \A e \in BfsSegments \ VaryingSegments : congestion[e] = 0
  /\ sumo_connects = FALSE
  /\ route_cache = EmptyDict
  /\ returned = NoCall
  /\ selection = NoCall
  /\ pheromone = EmptyDict
  /\ blocked_edges \in SUBSET BlockableSegments
  /\ searches = 0

NextAnt == AntSearch \/ ClearBlockedEdges

SpecAnt == InitAnt /\ [][NextAnt]_vars

\* C27 (fails): a search that returns a path for start != end multiplies the
\* pheromone of every segment of the table by (1 - evaporation_rate), and adds
\* 1/(1 + cost) for the segments of the path.
C27_EvaporatesEverywhere ==
  [][(/\ searches' = searches + 1
      /\ returned'.start # returned'.end
      /\ returned'.path # NoPath)
     => \A e \in DOMAIN pheromone :
          pheromone'[e] = (pheromone[e] * (1000 - EvaporationPermille)) \div 1000
                          + (IF e \in Range(returned'.path) THEN Delta(returned'.score) ELSE 0)]_vars

\* C33 (fails): a trial of get_path_from_ants that does not reach end stopped
\* because the hop bound was reached or because no successor of its last
\* segment was both unblocked and unvisited.
C33_TrialFailsOnlyWhenStuck ==
  returned.fn = "ants" =>
    \A trial \in returned.trials :
      ~trial.reached =>
        \/ Len(trial.path) - 1 >= MAX_ANT_HOPS
        \/ default_get_successor_edges(trial.path[Len(trial.path)])
             \ (returned.blocked \cup Range(trial.path)) = {}

\* C34 (fails): a path get_path_from_ants returns starts at start, ends at
\* end, goes from each segment to a successor of it, passes no segment twice,
\* has at most MAX_ANT_HOPS + 1 segments and contains no segment of
\* blocked_edges, the start segment included.
C34_AntPathAvoidsBlocked ==
  (returned.fn = "ants" /\ returned.path # NoPath) =>
    LET path == returned.path
    IN  /\ path[1] = returned.start
        /\ path[Len(path)] = returned.end
        /\ \A k \in 1 .. (Len(path) - 1) :
             path[k + 1] \in default_get_successor_edges(path[k])
        /\ \A j, k \in 1 .. Len(path) : path[j] = path[k] => j = k
        /\ Len(path) <= MAX_ANT_HOPS + 1
        /\ Range(path) \cap returned.blocked = {}

=============================================================================
